---------------------------- MODULE Spec2Model ----------------------------
(***************************************************************************)
(* A model of the article fetcher (src/article_fetcher_gui.py and          *)
(* src/fetch_article.py): source classification, content extraction, the  *)
(* HTML -> Markdown transform, image download and URL rewriting, the EPUB  *)
(* packager with its two tiers, and the single-article and batch workers.  *)
(*                                                                         *)
(* Text is modelled as a sequence of tokens (strings); a token stands for  *)
(* a run of characters that the code never splits.  One specification is   *)
(* given per component; the variables of the other components stay idle.   *)
(***************************************************************************)
EXTENDS Integers, Sequences, FiniteSets, TLC

VARIABLES
    \* WeChatArticleParser fed the events of a page
    wp_parser,      \* the parser object's fields
    wp_events,      \* the events reported so far
    wp_pc,          \* "idle" or "feed"
    \* _generate_markdown followed by _strip_markdown_header
    rt_title,       \* `title`
    rt_author,      \* `author`
    rt_body,        \* `content`, the Markdown of the article body
    rt_text,        \* the document, then what is left of it
    rt_pc,          \* "idle", "generate", "strip" or "ret"
    \* the <img> tags of a fragment: process_img_tag, the image rules of the CLI, _extract_image_urls
    im_html,        \* the <img> tags of the fragment, each the sequence of its attributes
    im_variant,     \* "gui": _html_to_markdown, "cli": html_to_markdown
    im_md,          \* the buffer of the transformer, one entry per tag of the fragment
    im_urls,        \* what _extract_image_urls returned for the fragment
    im_stage,       \* number of rewrites of the buffer already made
    im_pc,          \* "idle", "markdown", "extract" or "ret"
    \* the content rules of the _extract_*_content methods
    cf_profile,     \* the profile whose rules are applied
    cf_html,        \* the page, as its elements in order
    cf_content,     \* content_html
    cf_pc,          \* "idle", "call", "clean" or "ret"
    \* the content document of the manual tier (convert_to_epub, lines 633-717)
    cd_md,          \* `md_content`, the Markdown handed to convert_to_epub
    cd_fs,          \* what is at the paths under images_dir
    cd_images,      \* the list `images`
    cd_text,        \* md_updated, then md_for_html, then html_content
    cd_entries,     \* the entries written to the archive
    cd_pc,          \* "idle", "collect", "update", "strip", "html", "write", "ret"
    \* _extract_image_urls (GeneralArticleFetcher, lines 1000-1035)
    iu_html,        \* the src values of the <img> tags of `html`, in order
    iu_base_url,    \* `base_url`: None or the article URL
    iu_k,           \* number of matches already handled
    iu_urls,        \* the list `urls`
    iu_pc,          \* "idle", "loop" or "ret"
    \* replace_image_urls (GeneralArticleFetcher, lines 1313-1329)
    rw_refs,        \* the image references of the text, in order of occurrence
    rw_content,     \* `content`, the text being rewritten
    rw_items,       \* url_mapping.items(), in insertion order
    rw_k,           \* number of mapping entries already applied
    rw_pc,
    \* _detect_source_type (GeneralArticleFetcher, lines 739-750)
    cls_url,        \* the article URL: [host |-> tokens, rest |-> tokens]
    cls_html,       \* the fetched HTML passed alongside
    cls_result,     \* the returned source type
    cls_pc,
    \* fetch_article (GeneralArticleFetcher, lines 752-806)
    ex_url,         \* the article URL
    ex_page,        \* what the server answers: a sequence of page elements
    ex_html,        \* `html`, the value _fetch_html returned
    ex_result,      \* the value fetch_article returned
    ex_pc,
    \* _html_to_markdown (lines 1037-1157) and html_to_markdown (CLI, 284-353)
    md_blocks,      \* the blocks the input fragment is made of
    md_variant,     \* "gui": _html_to_markdown, "cli": html_to_markdown
    md_text,        \* `html`, the buffer the rewrites work on
    md_stage,       \* number of rewrites already applied
    md_pc,
    \* EpubConverter.convert_to_epub (lines 595-721), _convert_with_pandoc (457-593)
    ep_refs,        \* the image references of md_content, in order
    ep_fs,          \* what is at the path of every local reference
    ep_images_dir,  \* whether images_dir was passed
    ep_has_pandoc,  \* has_pandoc()
    ep_pc,
    ep_log,         \* the tiers entered, as convert_to_epub logs them
    ep_temp_dir,    \* temp_dir: "none", "exists", "removed"
    ep_staged,      \* the copies in temp_dir/media
    ep_temp_html,   \* temp_dir/content.html: "missing", "empty", "ok"
    ep_temp_epub,   \* temp_dir/output.epub: "missing", "empty", "ok"
    ep_delegate,    \* (success, result) of _convert_with_pandoc
    ep_i,           \* manual tier: references already looked at
    ep_images,      \* manual tier: the list `images`
    ep_error,       \* manual tier: the exception caught at line 719
    ep_output,      \* the file at output_path: who wrote it, its entries
    ep_result,      \* (success, result) of convert_to_epub
    \* ImageDownloader.download_images (lines 100-130)
    dl_frame,       \* the call: image_urls, turns done, url_mapping, requests
    dl_pc,
    dl_result,      \* the returned mapping
    \* ArticleFetcherGUI (lines 1332-1946)
    tab,            \* the tab the user works in: "single" or "batch"
    clicks,         \* how many times the user has acted on the window
    fetch_btn,      \* state of fetch_btn: "normal" or "disabled"
    save_btn,       \* state of save_btn
    current_result, \* self.current_result
    status,         \* what status_var shows
    referer,        \* self.fetcher.image_downloader.headers['Referer']
    ft,             \* the threads running _fetch_thread
    st,             \* the threads running _save_thread
    events,         \* callbacks handed to root.after(0, ...), oldest first
    files,          \* the files written to the output directory
    batch_running,
    batch_start_btn,
    batch_stop_btn,
    batch_urls,
    batch_index,
    batch_success,
    batch_failed,
    batch_total_images,
    batch_log,      \* the lines the batch worker has sent to the log
    bw              \* the thread running _batch_download_thread

rwVars == <<rw_refs, rw_content, rw_items, rw_k, rw_pc>>
clsVars == <<cls_url, cls_html, cls_result, cls_pc>>
exVars == <<ex_url, ex_page, ex_html, ex_result, ex_pc>>
mdVars == <<md_blocks, md_variant, md_text, md_stage, md_pc>>

epVars == <<ep_refs, ep_fs, ep_images_dir, ep_has_pandoc, ep_pc, ep_log,
           ep_temp_dir, ep_staged, ep_temp_html, ep_temp_epub, ep_delegate,
           ep_i, ep_images, ep_error, ep_output, ep_result>>

dlVars == <<dl_frame, dl_pc, dl_result>>

appVars == <<tab, clicks, fetch_btn, save_btn, current_result, status, referer, ft, st,
            events, files, batch_running, batch_start_btn, batch_stop_btn,
            batch_urls, batch_index, batch_success, batch_failed,
            batch_total_images, batch_log, bw>>

iuVars == <<iu_html, iu_base_url, iu_k, iu_urls, iu_pc>>

cdVars == <<cd_md, cd_fs, cd_images, cd_text, cd_entries, cd_pc>>

cfVars == <<cf_profile, cf_html, cf_content, cf_pc>>

imVars == <<im_html, im_variant, im_md, im_urls, im_stage, im_pc>>

rtVars == <<rt_title, rt_author, rt_body, rt_text, rt_pc>>

wpVars == <<wp_parser, wp_events, wp_pc>>

vars == <<rwVars, clsVars, exVars, mdVars, epVars, dlVars, appVars,
        iuVars,
        cdVars,
        cfVars,
        imVars,
        rtVars,
        wpVars>>

\* What the steps of one component leave alone: the other components.
rwOthers == <<clsVars, exVars, mdVars, epVars, dlVars, appVars,
        iuVars,
        cdVars,
        cfVars,
        imVars,
        rtVars,
        wpVars>>
clsOthers == <<rwVars, exVars, mdVars, epVars, dlVars, appVars,
        iuVars,
        cdVars,
        cfVars,
        imVars,
        rtVars,
        wpVars>>
exOthers == <<rwVars, clsVars, mdVars, epVars, dlVars, appVars,
        iuVars,
        cdVars,
        cfVars,
        imVars,
        rtVars,
        wpVars>>
mdOthers == <<rwVars, clsVars, exVars, epVars, dlVars, appVars,
        iuVars,
        cdVars,
        cfVars,
        imVars,
        rtVars,
        wpVars>>
epOthers == <<rwVars, clsVars, exVars, mdVars, dlVars, appVars,
        iuVars,
        cdVars,
        cfVars,
        imVars,
        rtVars,
        wpVars>>
dlOthers == <<rwVars, clsVars, exVars, mdVars, epVars, appVars,
        iuVars,
        cdVars,
        cfVars,
        imVars,
        rtVars,
        wpVars>>
appOthers == <<rwVars, clsVars, exVars, mdVars, epVars, dlVars,
        iuVars,
        cdVars,
        cfVars,
        imVars,
        rtVars,
        wpVars>>
iuOthers == <<rwVars, clsVars, exVars, mdVars, epVars, dlVars, appVars,
        cdVars,
        cfVars,
        imVars,
        rtVars,
        wpVars>>
cdOthers == <<rwVars, clsVars, exVars, mdVars, epVars, dlVars, appVars, iuVars,
        cfVars,
        imVars,
        rtVars,
        wpVars>>
cfOthers == <<rwVars, clsVars, exVars, mdVars, epVars, dlVars, appVars, iuVars, cdVars,
        imVars,
        rtVars,
        wpVars>>
imOthers == <<rwVars, clsVars, exVars, mdVars, epVars, dlVars, appVars, iuVars, cdVars, cfVars,
        rtVars,
        wpVars>>
rtOthers == <<rwVars, clsVars, exVars, mdVars, epVars, dlVars, appVars, iuVars, cdVars, cfVars, imVars,
        wpVars>>
wpOthers == <<rwVars, clsVars, exVars, mdVars, epVars, dlVars, appVars, iuVars, cdVars, cfVars, imVars, rtVars>>

-----------------------------------------------------------------------------
(* Bounds of the model *)

\* longest list of image references in a text handed to replace_image_urls
MaxRefs == 2
\* largest number of entries of a url_mapping handed to replace_image_urls
MaxMapped == 2
\* longest host, and longest path-and-query, of an article URL, in tokens
MaxHostParts == 2
MaxRestParts == 1
\* longest page, in elements, and longest captured text, in tokens
MaxElems == 2
MaxCap == 2
\* most blocks of a fragment, and most items of a list
MaxBlocks == 2
MaxItems == 2
\* longest list of image references in a Markdown handed to convert_to_epub
MaxEpubRefs == 2
\* longest list of image URLs handed to download_images
MaxImages == 2
\* longest list of URLs of a batch run
MaxBatch == 2
\* most actions of the user on the window in one run
MaxClicks == 3
\* most fetch threads, and most save threads, alive at a time
MaxFetchThreads == 1
MaxSaveThreads == 1

-----------------------------------------------------------------------------
(* Strings as token sequences *)

\* all sequences over S of length 0..n
SeqsUpTo(S, n) == UNION {[1..k -> S] : k \in 0..n}

\* all duplicate-free sequences over S of length 0..n
DistinctSeqsUpTo(S, n) ==
    {s \in SeqsUpTo(S, n) : \A i, j \in 1..Len(s) : s[i] = s[j] => i = j}

Range(s) == {s[i] : i \in 1..Len(s)}

StartsWith(s, p) == Len(p) <= Len(s) /\ SubSeq(s, 1, Len(p)) = p

\* Python's `sub in s`
Contains(s, sub) ==
    \E i \in 1..(Len(s) - Len(sub) + 1) : SubSeq(s, i, i + Len(sub) - 1) = sub

\* Python's str.replace(old, new) for a non-empty `old`: leftmost,
\* non-overlapping occurrences, left to right
RECURSIVE StrReplace(_, _, _)
StrReplace(s, old, new) ==
    IF Len(s) < Len(old) THEN s
    ELSE IF StartsWith(s, old)
         THEN new \o StrReplace(SubSeq(s, Len(old) + 1, Len(s)), old, new)
         ELSE <<s[1]>> \o StrReplace(Tail(s), old, new)

\* the concatenation of a sequence of strings, `sep` between them
RECURSIVE Join(_, _)
Join(ss, sep) ==
    IF Len(ss) = 0 THEN <<>>
    ELSE IF Len(ss) = 1 THEN ss[1]
    ELSE ss[1] \o sep \o Join(Tail(ss), sep)

\* Python's s.split(sep) for a one-token separator
RECURSIVE Split(_, _)
Split(s, sep) ==
    IF \A i \in 1..Len(s) : s[i] # sep THEN <<s>>
    ELSE LET i == CHOOSE i \in 1..Len(s) :
                      s[i] = sep /\ \A j \in 1..(i - 1) : s[j] # sep
         IN  <<SubSeq(s, 1, i - 1)>> \o Split(SubSeq(s, i + 1, Len(s)), sep)

-----------------------------------------------------------------------------
(* URLs.  A URL is <<origin, path>> or <<origin, path, query>>: the origin  *)
(* is scheme://host, the path starts with "/", the query with "?".         *)

Origins == {"https://h1", "https://h2"}
Paths   == {"/a.png", "/b"}
Queries == {"?w=1"}

ImageUrls == {<<o, p>> : o \in Origins, p \in Paths}
                \cup {<<"https://h1", "/a.png", q>> : q \in Queries}

\* urllib.parse.urlparse(url).path
UrlPath(url) == IF Len(url) >= 2 THEN <<url[2]>> ELSE <<>>

\* urllib.parse.urlparse(url).query, with its leading "?"
UrlQuery(url) == IF Len(url) >= 3 THEN <<url[3]>> ELSE <<>>

\* str(i), for the sequence numbers the model needs
NumStr(i) == <<"1", "2", "3", "4", "5", "6", "7", "8", "9">>[i]

\* the relative path 'images/<timestamp>_<i><ext>' of the i-th download
LocalPath(i, ext) == <<"images/", NumStr(i), ext>>

IsLocalPath(v) == Len(v) = 3 /\ v[1] = "images/"

-----------------------------------------------------------------------------
(* GeneralArticleFetcher.replace_image_urls *)

\* the rendered text: one image reference after the other, blank-separated
RenderRefs(refs) == Join(refs, <<" ">>)

\* one iteration of the loop over url_mapping.items()
ReplaceOneUrl(content, original_url, local_path) ==
    LET full == StrReplace(content, original_url, local_path)
        relative_url == UrlPath(original_url) \o UrlQuery(original_url)
    IN  IF UrlPath(original_url) # <<>>
        THEN StrReplace(full, relative_url, local_path)
        ELSE full

RwInit ==
    /\ rw_refs \in SeqsUpTo(ImageUrls, MaxRefs)
    /\ rw_content = RenderRefs(rw_refs)
    /\ \E urls \in DistinctSeqsUpTo(ImageUrls, MaxMapped) :
         \E ok \in [1..Len(urls) -> BOOLEAN] :
            rw_items = [i \in 1..Len(urls) |->
                          [url |-> urls[i],
                           dest |-> IF ok[i] THEN LocalPath(i, ".jpg")
                                             ELSE urls[i]]]
    /\ rw_k = 0
    /\ rw_pc = "loop"

RwIdle ==
    /\ rw_refs = <<>>
    /\ rw_content = <<>>
    /\ rw_items = <<>>
    /\ rw_k = 0
    /\ rw_pc = "idle"

\* for original_url, local_path in url_mapping.items(): ...
ReplaceStep ==
    /\ rw_pc = "loop"
    /\ rw_k < Len(rw_items)
    /\ rw_content' = ReplaceOneUrl(rw_content, rw_items[rw_k + 1].url,
                                   rw_items[rw_k + 1].dest)
    /\ rw_k' = rw_k + 1
    /\ UNCHANGED <<rw_refs, rw_items, rw_pc>>
    /\ UNCHANGED rwOthers

\* return content
ReplaceReturn ==
    /\ rw_pc = "loop"
    /\ rw_k = Len(rw_items)
    /\ rw_pc' = "ret"
    /\ UNCHANGED <<rw_refs, rw_content, rw_items, rw_k>>
    /\ UNCHANGED rwOthers

\* the destination url_mapping gives `url`, or `url` itself when unmapped
RwDest(url) ==
    IF \E i \in 1..Len(rw_items) : rw_items[i].url = url
    THEN rw_items[CHOOSE i \in 1..Len(rw_items) : rw_items[i].url = url].dest
    ELSE url

RwAllPassThrough == \A i \in 1..Len(rw_items) : rw_items[i].dest = rw_items[i].url

RwAllDownloaded == \A i \in 1..Len(rw_items) : IsLocalPath(rw_items[i].dest)

\* C6: replace_image_urls with pass-through entries (failed downloads, mapped
\* to their own URL) leaves every reference exactly the original URL: a
\* mapping made only of pass-through entries returns the text unchanged.
C6_PassThroughLeavesTextUnchanged ==
    (rw_pc = "ret" /\ RwAllPassThrough) => rw_content = RenderRefs(rw_refs)

\* C7: after replace_image_urls every occurrence of every mapped URL stands
\* replaced by that URL's own destination, for any number of mapped URLs and
\* occurrences (a URL that is a prefix of another, or two URLs with the same
\* path on different hosts, included).
C7_EveryMappedUrlGetsItsOwnDestination ==
    (rw_pc = "ret" /\ RwAllDownloaded) =>
        LET slots == Split(rw_content, " ")
        IN  /\ Len(slots) = Len(rw_refs) \/ rw_refs = <<>>
            /\ \A k \in 1..Len(rw_refs) :
                 (\E i \in 1..Len(rw_items) : rw_items[i].url = rw_refs[k])
                     => (k <= Len(slots) /\ slots[k] = RwDest(rw_refs[k]))

RwNext == ReplaceStep \/ ReplaceReturn

-----------------------------------------------------------------------------
(* GeneralArticleFetcher._detect_source_type *)

\* the host fragments the code looks for, and tokens that hold none of them
PlatformFragments ==
    {"mp.weixin.qq.com", "notion.com", "notion.site", "medium.com",
     "zhuanlan.zhihu.com"}
PlainTokens == {"example.org"}
UrlTokens == PlatformFragments \cup PlainTokens

ArticleUrls ==
    {[host |-> h, rest |-> r] :
        h \in SeqsUpTo(UrlTokens, MaxHostParts) \ {<<>>},
        r \in SeqsUpTo(UrlTokens, MaxRestParts)}

\* the URL as the string the code sees: scheme://host/path-and-query
UrlString(u) == <<"https://">> \o u.host \o <<"/">> \o u.rest

\* `fragment in url` of a string made of the tokens above
HasFragment(str, fragment) == fragment \in Range(str)

_detect_source_type(url, html) ==
    IF HasFragment(url, "mp.weixin.qq.com") THEN "wechat"
    ELSE IF HasFragment(url, "notion.com") \/ HasFragment(url, "notion.site")
         THEN "notion"
    ELSE IF HasFragment(url, "medium.com") THEN "medium"
    ELSE IF HasFragment(url, "zhuanlan.zhihu.com") THEN "zhihu"
    ELSE "general"

ClsInit ==
    /\ cls_url \in ArticleUrls
    /\ cls_html \in {<<>>, <<"mp.weixin.qq.com">>}
    /\ cls_result = "none"
    /\ cls_pc = "call"

ClsIdle ==
    /\ cls_url = [host |-> <<>>, rest |-> <<>>]
    /\ cls_html = <<>>
    /\ cls_result = "none"
    /\ cls_pc = "idle"

DetectSourceType ==
    /\ cls_pc = "call"
    /\ cls_result' = _detect_source_type(UrlString(cls_url), cls_html)
    /\ cls_pc' = "ret"
    /\ UNCHANGED <<cls_url, cls_html>>
    /\ UNCHANGED clsOthers

\* the profile of the first fragment, in the fixed order, that the host holds
HostProfile(host) ==
    IF "mp.weixin.qq.com" \in Range(host) THEN "wechat"
    ELSE IF "notion.com" \in Range(host) \/ "notion.site" \in Range(host)
         THEN "notion"
    ELSE IF "medium.com" \in Range(host) THEN "medium"
    ELSE IF "zhuanlan.zhihu.com" \in Range(host) THEN "zhihu"
    ELSE "general"

\* C10: _detect_source_type is total and returns the profile of the first
\* fragment (wechat, notion, medium, zhihu order) that the URL's host
\* matches, and 'general' when the host matches none.
C10_ProfileOfFirstHostFragment ==
    cls_pc = "ret" => cls_result = HostProfile(cls_url.host)

\* C11: the profile depends only on the URL's host: every URL with the same
\* host as the classified one, whatever its path and query and whatever HTML
\* is passed alongside, gets the same profile; and a host that holds no
\* platform fragment gets 'general'.
C11_ProfileDependsOnlyOnHost ==
    cls_pc = "ret" =>
        /\ \A u \in ArticleUrls, html \in {<<>>, <<"mp.weixin.qq.com">>} :
               u.host = cls_url.host =>
                   _detect_source_type(UrlString(u), html) = cls_result
        /\ (Range(cls_url.host) \cap PlatformFragments = {}) =>
               cls_result = "general"

ClsNext == DetectSourceType

-----------------------------------------------------------------------------
(* GeneralArticleFetcher.fetch_article and the title rules of the          *)
(* _extract_*_content methods.                                             *)
(*                                                                         *)
(* A page is a sequence of elements [kind, cap]: `kind` names the pattern  *)
(* the element matches, `cap` is the text the pattern's group captures.    *)
(* re.search(pattern, html) finds the first element of the pattern's kinds.*)

None == [isNone |-> TRUE]
Some(v) == [isNone |-> FALSE, val |-> v]

\* "|wechat-oa" stands for a separator followed by the WeChat platform name
\* (line 841), "|Notion" for a separator followed by "Notion" (line 881)
SfxWechat == "|wechat-oa"
SfxNotion == "|Notion"
CapTokens == {"T", " ", "<b>", SfxWechat, SfxNotion}
Caps == SeqsUpTo(CapTokens, MaxCap)

TitleKinds ==
    {"og:title", "meta:title", "twitter:title", "h1.rich_media_title", "h1",
     "title"}

PageElements ==
    {[kind |-> k, cap |-> c] : k \in TitleKinds, c \in Caps}
        \cup {[kind |-> "text", cap |-> <<"T">>]}

Pages == SeqsUpTo(PageElements, MaxElems)

\* re.search: the first element of one of `kinds`, as a match object or None
Search(html, kinds) ==
    IF \E i \in 1..Len(html) : html[i].kind \in kinds
    THEN LET i == CHOOSE i \in 1..Len(html) :
                      /\ html[i].kind \in kinds
                      /\ \A j \in 1..(i - 1) : html[j].kind \notin kinds
         IN  Some(html[i].cap)
    ELSE None

\* Python's `not v` of a value that is None or a string
Falsy(v) == IF v.isNone THEN TRUE ELSE v.val = <<>>

\* `a` if it matched, else `b`: the chain `if not m: m = re.search(...)`
OrElse(a, b) == IF a.isNone THEN b ELSE a

IsTag(tok) == tok \in {"<b>"}

\* re.sub(r'<[^>]+>', '', s)
StripTags(s) == SelectSeq(s, LAMBDA tok : ~IsTag(tok))

\* white space, as str.strip and \s see it
IsSpace(tok) == tok \in {" ", "\n"}

\* str.strip()
RECURSIVE LStrip(_)
LStrip(s) == IF s # <<>> /\ IsSpace(s[1]) THEN LStrip(Tail(s)) ELSE s
RECURSIVE RStrip(_)
RStrip(s) ==
    IF s # <<>> /\ IsSpace(s[Len(s)])
    THEN RStrip(SubSeq(s, 1, Len(s) - 1)) ELSE s
Strip(s) == LStrip(RStrip(s))

\* re.sub(r'\s*[-_|]\s*<platform>.*$', '', title): everything from the first
\* platform suffix on, and the white space before it, is removed
RemoveSuffix(title, sfx) ==
    IF sfx \notin Range(title) THEN title
    ELSE LET i == CHOOSE i \in 1..Len(title) :
                      title[i] = sfx /\ \A j \in 1..(i - 1) : title[j] # sfx
         IN  RStrip(SubSeq(title, 1, i - 1))

\* the title of _extract_wechat_content (lines 831-841)
WechatTitle(html) ==
    LET title_match ==
            OrElse(Search(html, {"og:title"}),
            OrElse(Search(html, {"h1.rich_media_title"}),
                   Search(html, {"title"})))
    IN  IF title_match.isNone THEN <<>>
        ELSE RemoveSuffix(Strip(StripTags(title_match.val)), SfxWechat)

\* the title of _extract_notion_content (lines 869-881)
NotionTitle(html) ==
    LET title_match ==
            OrElse(Search(html, {"og:title"}),
            OrElse(Search(html, {"meta:title"}),
            OrElse(Search(html, {"h1", "h1.rich_media_title"}),
                   Search(html, {"title"}))))
    IN  IF title_match.isNone THEN <<>>
        ELSE RemoveSuffix(Strip(StripTags(title_match.val)), SfxNotion)

\* the title of _extract_general_content (lines 925-938)
GeneralTitle(html) ==
    LET title_match ==
            OrElse(Search(html, {"og:title"}),
            OrElse(Search(html, {"meta:title"}),
            OrElse(Search(html, {"twitter:title"}),
            OrElse(Search(html, {"h1", "h1.rich_media_title"}),
                   Search(html, {"title"})))))
    IN  IF title_match.isNone THEN <<>>
        ELSE Strip(StripTags(title_match.val))

\* the fixed placeholder title of line 781
PlaceholderTitle == <<"untitled-article">>

\* fetch_article from line 762 on, for the html _fetch_html returned
ParseArticle(url, html) ==
    LET source_type == _detect_source_type(UrlString(url), html)
        extracted == IF source_type = "wechat" THEN WechatTitle(html)
                     ELSE IF source_type = "notion" THEN NotionTitle(html)
                     ELSE GeneralTitle(html)
        title == IF extracted = <<>> THEN PlaceholderTitle ELSE extracted
    IN  Some([title |-> title, source_type |-> source_type])

ExUrls ==
    {[host |-> <<h>>, rest |-> <<>>] :
        h \in {"mp.weixin.qq.com", "notion.site", "example.org"}}

ExInit ==
    /\ ex_url \in ExUrls
    /\ ex_page \in Pages
    /\ ex_html = None
    /\ ex_result = None
    /\ ex_pc = "fetch"

ExIdle ==
    /\ ex_url = [host |-> <<>>, rest |-> <<>>]
    /\ ex_page = <<>>
    /\ ex_html = None
    /\ ex_result = None
    /\ ex_pc = "idle"

\* html = self._fetch_html(url), the server answering with the page
FetchHtmlOk ==
    /\ ex_pc = "fetch"
    /\ ex_html' = Some(ex_page)
    /\ ex_pc' = "fetched"
    /\ UNCHANGED <<ex_url, ex_page, ex_result>>
    /\ UNCHANGED exOthers

\* html = self._fetch_html(url), a network error: _fetch_html returns None
FetchHtmlFail ==
    /\ ex_pc = "fetch"
    /\ ex_html' = None
    /\ ex_pc' = "fetched"
    /\ UNCHANGED <<ex_url, ex_page, ex_result>>
    /\ UNCHANGED exOthers

\* if not html: return None
FetchArticleReturnNone ==
    /\ ex_pc = "fetched"
    /\ Falsy(ex_html)
    /\ ex_result' = None
    /\ ex_pc' = "ret"
    /\ UNCHANGED <<ex_url, ex_page, ex_html>>
    /\ UNCHANGED exOthers

\* the rest of fetch_article: classify, extract, return the article
FetchArticleReturn ==
    /\ ex_pc = "fetched"
    /\ ~Falsy(ex_html)
    /\ ex_result' = ParseArticle(ex_url, ex_html.val)
    /\ ex_pc' = "ret"
    /\ UNCHANGED <<ex_url, ex_page, ex_html>>
    /\ UNCHANGED exOthers

\* C9: for any fetched HTML string, the empty string included, extraction
\* through fetch_article returns an article whose title is not empty (the
\* placeholder when no title rule yields text).
C9_FetchedHtmlYieldsNonEmptyTitle ==
    (ex_pc = "ret" /\ ~ex_html.isNone) =>
        (~ex_result.isNone /\ ex_result.val.title # <<>>)

\* the title rules of a profile, in priority order, each as the kinds of
\* element its pattern finds
TitleRules(source_type) ==
    IF source_type = "wechat"
    THEN <<{"og:title"}, {"h1.rich_media_title"}, {"title"}>>
    ELSE IF source_type = "notion"
    THEN <<{"og:title"}, {"meta:title"}, {"h1", "h1.rich_media_title"}, {"title"}>>
    ELSE <<{"og:title"}, {"meta:title"}, {"twitter:title"},
           {"h1", "h1.rich_media_title"}, {"title"}>>

\* what the first rule that matches with a capture that is not empty captures
RECURSIVE FirstNonEmptyMatch(_, _)
FirstNonEmptyMatch(html, rules) ==
    IF rules = <<>> THEN None
    ELSE IF ~Falsy(Search(html, rules[1])) THEN Search(html, rules[1])
    ELSE FirstNonEmptyMatch(html, Tail(rules))

\* the text of a title match as the profile cleans it
CleanTitle(source_type, cap) ==
    IF source_type = "wechat" THEN RemoveSuffix(Strip(StripTags(cap)), SfxWechat)
    ELSE IF source_type = "notion" THEN RemoveSuffix(Strip(StripTags(cap)), SfxNotion)
    ELSE Strip(StripTags(cap))

\* C20: the title of an article is taken from the first rule of its profile,
\* in priority order, whose match captures text that is not empty: a rule
\* that matches with an empty capture does not end the chain.
C20_TitleFromFirstNonEmptyRule ==
    (ex_pc = "ret" /\ ~ex_result.isNone) =>
        LET profile == ex_result.val.source_type
            m == FirstNonEmptyMatch(ex_html.val, TitleRules(profile))
        IN  (~m.isNone /\ CleanTitle(profile, m.val) # <<>>) =>
                ex_result.val.title = CleanTitle(profile, m.val)

ExNext ==
    \/ FetchHtmlOk
    \/ FetchHtmlFail
    \/ FetchArticleReturnNone
    \/ FetchArticleReturn

-----------------------------------------------------------------------------
(* The content rules of the _extract_*_content methods.                    *)
(*                                                                         *)
(* A page is a sequence of elements [kind, inner]: `kind` names the tag    *)
(* (with the id or class the patterns look at), `inner` is what stands     *)
(* between its start and end tags, again a sequence of elements.           *)

\* most elements of a page
MaxPageElems == 2

P == [kind |-> "p", inner |-> <<>>]

\* the elements the patterns of the cleaning stages name
ChromeKinds == {"script", "style", "nav", "header", "footer", "aside"}

\* the elements the content patterns name: <div id="js_content"> followed by
\* the tool bar, <div class="rich_media_content">, <article class="...">,
\* <div class="notion-page-content"> followed by a footer, <article>, <main>,
\* <div class="post-content">
ContainerKinds ==
    {"div#js_content", "div.rich_media_content", "article.class",
     "div.notion-page-content", "article", "main", "div.post-content"}

Leaves == {[kind |-> k, inner |-> <<>>] : k \in ChromeKinds \cup {"p"}}

\* what stands inside a container
Inners ==
    {<<>>, <<P>>, <<[kind |-> "nav", inner |-> <<>>], P>>,
     <<[kind |-> "aside", inner |-> <<>>]>>}

CfElements ==
    Leaves \cup {[kind |-> k, inner |-> i] : k \in ContainerKinds, i \in Inners}

CfPages == SeqsUpTo(CfElements, MaxPageElems)

\* re.search(pattern, html): the first element of one of `kinds`, top level
\* or inside a container, in document order
FlatElements(html) ==
    LET RECURSIVE Flat(_)
        Flat(s) == IF s = <<>> THEN <<>>
                   ELSE <<s[1]>> \o s[1].inner \o Flat(Tail(s))
    IN  Flat(html)

SearchElement(html, kinds) ==
    LET flat == FlatElements(html) IN
    IF \E i \in 1..Len(flat) : flat[i].kind \in kinds
    THEN LET i == CHOOSE i \in 1..Len(flat) :
                      /\ flat[i].kind \in kinds
                      /\ \A j \in 1..(i - 1) : flat[j].kind \notin kinds
         IN  Some(flat[i].inner)
    ELSE None

\* re.sub(r'<tag[^>]*>.*?</tag>', '', content_html) for the tags of `kinds`
RemoveElements(html, kinds) ==
    LET Keep(e) == e.kind \notin kinds
        Cleaned(e) == [e EXCEPT !.inner = SelectSeq(e.inner, Keep)]
        kept == SelectSeq(html, Keep)
    IN  [k \in 1..Len(kept) |-> Cleaned(kept[k])]

\* article.class is an <article> too, and the h1 patterns do not matter here
ArticleKinds == {"article", "article.class"}

\* lines 849-859
WechatContainer(html) ==
    OrElse(SearchElement(html, {"div#js_content"}),
           SearchElement(html, {"div.rich_media_content"}))

\* lines 861-863
WechatClean(content_html) == RemoveElements(content_html, {"script", "style"})

\* lines 891-904
NotionContainer(html) ==
    OrElse(SearchElement(html, {"article.class"}),
    OrElse(SearchElement(html, {"div.notion-page-content"}),
    OrElse(SearchElement(html, ArticleKinds),
           SearchElement(html, {"main"}))))

\* lines 913-915: the fallback of the notion rules
NotionFallback(html) == RemoveElements(html, {"header", "footer", "nav"})

\* lines 917-919
NotionClean(content_html) == RemoveElements(content_html, {"script", "style"})

\* `b` when `a` is no match or an empty capture: the chain
\* `if not content_html:` of lines 953-979
OrIfEmpty(a, b) == IF Falsy(a) THEN b ELSE a

\* lines 953-979
GeneralContainer(html) ==
    OrIfEmpty(SearchElement(html, ArticleKinds),
    OrIfEmpty(SearchElement(html, {"main"}),
              SearchElement(html, {"div.post-content"})))

\* lines 990-996
GeneralClean(content_html) == RemoveElements(content_html, ChromeKinds)

CfInit ==
    /\ cf_profile \in {"wechat", "notion", "general"}
    /\ cf_html \in CfPages
    /\ cf_content = <<>>
    /\ cf_pc = "call"

CfIdle ==
    /\ cf_profile = "none"
    /\ cf_html = <<>>
    /\ cf_content = <<>>
    /\ cf_pc = "idle"

\* _extract_wechat_content, lines 849-859
WechatSelectContent ==
    /\ cf_pc = "call"
    /\ cf_profile = "wechat"
    /\ cf_content' = IF WechatContainer(cf_html).isNone THEN cf_html
                     ELSE WechatContainer(cf_html).val
    /\ cf_pc' = "clean"
    /\ UNCHANGED <<cf_profile, cf_html>>
    /\ UNCHANGED cfOthers

\* _extract_notion_content, lines 891-915
NotionSelectContent ==
    /\ cf_pc = "call"
    /\ cf_profile = "notion"
    /\ cf_content' = IF NotionContainer(cf_html).isNone THEN NotionFallback(cf_html)
                     ELSE NotionContainer(cf_html).val
    /\ cf_pc' = "clean"
    /\ UNCHANGED <<cf_profile, cf_html>>
    /\ UNCHANGED cfOthers

\* _extract_general_content, lines 953-988: the page of the model is what
\* stands between <body> and </body>
GeneralSelectContent ==
    /\ cf_pc = "call"
    /\ cf_profile = "general"
    /\ cf_content' = IF Falsy(GeneralContainer(cf_html)) THEN cf_html
                     ELSE GeneralContainer(cf_html).val
    /\ cf_pc' = "clean"
    /\ UNCHANGED <<cf_profile, cf_html>>
    /\ UNCHANGED cfOthers

\* the cleaning stage of each method and its return
CleanContent ==
    /\ cf_pc = "clean"
    /\ cf_content' = IF cf_profile = "wechat" THEN WechatClean(cf_content)
                     ELSE IF cf_profile = "notion" THEN NotionClean(cf_content)
                     ELSE GeneralClean(cf_content)
    /\ cf_pc' = "ret"
    /\ UNCHANGED <<cf_profile, cf_html>>
    /\ UNCHANGED cfOthers

CfNext ==
    \/ WechatSelectContent
    \/ NotionSelectContent
    \/ GeneralSelectContent
    \/ CleanContent

\* no content rule of the profile finds its container in the page
NoContainerMatches ==
    IF cf_profile = "wechat" THEN WechatContainer(cf_html).isNone
    ELSE IF cf_profile = "notion" THEN NotionContainer(cf_html).isNone
    ELSE GeneralContainer(cf_html).isNone

\* C21: for every profile, when no content rule matches, the content is the
\* whole page without its script, style, nav, header, footer and aside
\* elements.
C21_FallbackIsPageWithoutChrome ==
    (cf_pc = "ret" /\ NoContainerMatches) =>
        cf_content = RemoveElements(cf_html, ChromeKinds)

-----------------------------------------------------------------------------
(* GeneralArticleFetcher._extract_image_urls.                              *)
(*                                                                         *)
(* `html` is given by the src values its <img> tags capture, in order.  A  *)
(* src value is a sequence of tokens; its first token is the run of        *)
(* characters the startswith tests of the code look at.                    *)

\* most <img> tags in a fragment
MaxSrcs == 3

\* what the src values of the model begin with: a data: URI, a
\* protocol-relative URL, a root-relative path, the two web schemes, a
\* relative path of a directory named httpdocs, another relative path
SrcHeads ==
    {"data:", "//", "/", "https://", "http://", "httpdocs/", "img/", "../"}

\* str.startswith on the first token of a src value
TokenPrefixes(tok) ==
    CASE tok = "data:" -> {"data:"}
      [] tok = "//" -> {"//", "/"}
      [] tok = "/" -> {"/"}
      [] tok = "https://" -> {"http", "https://"}
      [] tok = "http://" -> {"http", "http://"}
      [] tok = "httpdocs/" -> {"http"}
      [] OTHER -> {}

SrcStartsWith(url, prefix) == url # <<>> /\ prefix \in TokenPrefixes(url[1])

\* the src values of the model
SrcValues ==
    {<<"data:", "AAA">>,
     <<"//", "h", "/", "a.png">>,
     <<"https://", "h", "/", "a.png">>,
     <<"https://", "h", "/", "q?x=1", "&amp;", "y=2">>,
     <<"https://", "h", "/", "q?x=1", "&", "y=2">>,
     <<"/", "a.png">>,
     <<"/", "_next/image?url=", "a.png">>,
     <<"http://", "s", "/", "a.png">>,
     <<"httpdocs/", "a.png">>,
     <<"img/", "a.png">>,
     <<"../", "a.png">>}

\* the article URLs passed as base_url, as urlparse splits them
BaseUrls == {[scheme |-> "http://", netloc |-> "s", path |-> <<"/", "p">>]}

\* the four str.replace calls of lines 1012-1015
DecodeEntity(tok) ==
    CASE tok = "&amp;" -> "&"
      [] tok = "&lt;" -> "<"
      [] tok = "&gt;" -> ">"
      [] tok = "&quot;" -> "\""
      [] OTHER -> tok

DecodeEntities(url) == [i \in 1..Len(url) |-> DecodeEntity(url[i])]

\* urljoin(base_url, url) of a path that begins with '/', and the f-string
\* of line 1025: scheme and netloc of the base, then the path
JoinRoot(base_url, url) == <<base_url.scheme, base_url.netloc>> \o url

\* one turn of the loop of lines 1006-1034 on the captured src value: the
\* URL to append, or None when the turn ends in `continue`
NormaliseSrc(src, base_url) ==
    IF SrcStartsWith(src, "data:") THEN None
    ELSE LET url == DecodeEntities(src) IN
         IF SrcStartsWith(url, "//")
         THEN Some(<<"https://">> \o Tail(url))
         ELSE IF SrcStartsWith(url, "/")
         THEN IF "_next/image?url=" \in Range(url) /\ ~base_url.isNone
              THEN Some(JoinRoot(base_url.val, url))
              ELSE IF ~base_url.isNone
              THEN Some(JoinRoot(base_url.val, url))
              ELSE None
         ELSE IF ~SrcStartsWith(url, "http") THEN None
         ELSE Some(url)

\* if url not in urls: urls.append(url)
AppendNew(urls, url) == IF url \in Range(urls) THEN urls ELSE Append(urls, url)

IuInit ==
    /\ iu_html \in SeqsUpTo(SrcValues, MaxSrcs)
    /\ iu_base_url \in {None} \cup {Some(b) : b \in BaseUrls}
    /\ iu_k = 0
    /\ iu_urls = <<>>
    /\ iu_pc = "loop"

IuIdle ==
    /\ iu_html = <<>>
    /\ iu_base_url = None
    /\ iu_k = 0
    /\ iu_urls = <<>>
    /\ iu_pc = "idle"

\* one turn of `for match in re.finditer(...)`
ExtractImageUrl ==
    /\ iu_pc = "loop"
    /\ iu_k < Len(iu_html)
    /\ LET url == NormaliseSrc(iu_html[iu_k + 1], iu_base_url) IN
       iu_urls' = IF url.isNone THEN iu_urls ELSE AppendNew(iu_urls, url.val)
    /\ iu_k' = iu_k + 1
    /\ UNCHANGED <<iu_html, iu_base_url, iu_pc>>
    /\ UNCHANGED iuOthers

\* return urls
ExtractImageUrlsReturn ==
    /\ iu_pc = "loop"
    /\ iu_k = Len(iu_html)
    /\ iu_pc' = "ret"
    /\ UNCHANGED <<iu_html, iu_base_url, iu_k, iu_urls>>
    /\ UNCHANGED iuOthers

IuNext ==
    \/ ExtractImageUrl
    \/ ExtractImageUrlsReturn

\* an absolute URL: a web scheme followed by a host
IsAbsoluteUrl(url) == Len(url) >= 2 /\ url[1] \in {"https://", "http://"}

\* the place in the fragment of the first tag that yields `url`
FirstSeen(url) ==
    CHOOSE k \in 1..Len(iu_html) :
        /\ NormaliseSrc(iu_html[k], iu_base_url) = Some(url)
        /\ \A j \in 1..(k - 1) : NormaliseSrc(iu_html[j], iu_base_url) # Some(url)

\* C12: the returned sequence has no duplicates, is in first-seen order of
\* the fragment, holds only absolute URLs and no data: URI, and holds
\* 'https://host/path' for every protocol-relative source '//host/path'.
C12_DistinctAbsoluteInFirstSeenOrder ==
    iu_pc = "ret" =>
        /\ \A i, j \in 1..Len(iu_urls) : iu_urls[i] = iu_urls[j] => i = j
        /\ \A i \in 1..Len(iu_urls) :
               \E k \in 1..Len(iu_html) :
                   NormaliseSrc(iu_html[k], iu_base_url) = Some(iu_urls[i])
        /\ \A i, j \in 1..Len(iu_urls) :
               i < j => FirstSeen(iu_urls[i]) < FirstSeen(iu_urls[j])
        /\ \A i \in 1..Len(iu_urls) :
               IsAbsoluteUrl(iu_urls[i]) /\ iu_urls[i][1] # "data:"
        /\ \A k \in 1..Len(iu_html) :
               iu_html[k][1] = "//" =>
                   <<"https://">> \o Tail(iu_html[k]) \in Range(iu_urls)

\* a source that is no URL by itself: protocol-relative, root-relative or
\* path-relative
IsRelativeSrc(src) == src[1] \in {"//", "/", "img/", "httpdocs/", "../"}

\* the absolute URL a relative source stands for under the base URL, whose
\* path has its last segment directly under the root
Resolved(src, base_url) ==
    IF src[1] = "//" THEN <<"https://">> \o Tail(DecodeEntities(src))
    ELSE IF src[1] = "/" THEN <<base_url.scheme, base_url.netloc>> \o DecodeEntities(src)
    ELSE IF src[1] = "../"
    THEN <<base_url.scheme, base_url.netloc, "/">> \o Tail(DecodeEntities(src))
    ELSE <<base_url.scheme, base_url.netloc, "/">> \o DecodeEntities(src)

\* C22: with a base URL given, every relative source, root-relative,
\* path-relative or protocol-relative, has its absolute URL in the result.
C22_RelativeSourcesAreResolved ==
    (iu_pc = "ret" /\ ~iu_base_url.isNone) =>
        \A k \in 1..Len(iu_html) :
            IsRelativeSrc(iu_html[k]) =>
                Resolved(iu_html[k], iu_base_url.val) \in Range(iu_urls)

-----------------------------------------------------------------------------
(* The <img> tags of a fragment, as _html_to_markdown (process_img_tag),   *)
(* html_to_markdown of the command-line tool and _extract_image_urls read  *)
(* them.  A tag is the sequence of its attributes [name, value], every     *)
(* value in double quotes; a value is a sequence of tokens as in SrcValues.*)

\* most <img> tags of a fragment
MaxImgTags == 2

\* most attributes of a tag
MaxAttrs == 3

ImgUrlValues ==
    {<<"https://", "h", "/", "a.png">>,
     <<"//", "h", "/", "q?x=1", "&amp;", "y=2">>,
     <<"data:", "AAA">>}

ImgAttrs ==
    {[name |-> n, value |-> v] : n \in {"src", "data-src"}, v \in ImgUrlValues}
        \cup {[name |-> "alt", value |-> <<"x">>]}

\* the tags of the model: no attribute name twice
ImgTags ==
    {t \in SeqsUpTo(ImgAttrs, MaxAttrs) :
        \A i, j \in 1..Len(t) : t[i].name = t[j].name => i = j}

\* the attributes a pattern that ends in `src="` can match: src, and
\* data-src, whose name ends in src
SrcLike == {"src", "data-src"}

\* the places of the attributes of `names` in a tag
AttrIdx(tag, names) == {i \in 1..Len(tag) : tag[i].name \in names}

Min(S) == CHOOSE x \in S : \A y \in S : x <= y
Max(S) == CHOOSE x \in S : \A y \in S : x >= y

\* the fixed alt text of line 1057
PlaceholderAlt == <<"image">>

\* an entry of the buffer: a tag not rewritten, the text '![alt](url)', or
\* nothing
TagEntry(tag) == [kind |-> "tag", tag |-> tag, alt |-> <<>>, url |-> <<>>]
ImgEntry(alt, url) == [kind |-> "img", tag |-> <<>>, alt |-> alt, url |-> url]
NoEntry == [kind |-> "none", tag |-> <<>>, alt |-> <<>>, url |-> <<>>]

\* process_img_tag (lines 1043-1059): re.search finds the leftmost
\* data-src or src attribute, and the leftmost alt
process_img_tag(tag) ==
    IF AttrIdx(tag, SrcLike) = {} THEN NoEntry
    ELSE LET src == tag[Min(AttrIdx(tag, SrcLike))].value
             url == IF SrcStartsWith(src, "//")
                    THEN <<"https://">> \o Tail(src) ELSE src
             alt == IF AttrIdx(tag, {"alt"}) = {} THEN PlaceholderAlt
                    ELSE tag[Min(AttrIdx(tag, {"alt"}))].value
         IN  ImgEntry(alt, url)

\* fetch_article.py line 290 (names = {"data-src"}) and line 291 (names =
\* SrcLike): <img[^>]*NAME="([^"]*)"[^>]*alt="([^"]*)"[^>]*/?> takes the
\* last attribute of `names` that has an alt attribute after it
CliImageRule(entry, names) ==
    IF entry.kind # "tag" THEN entry
    ELSE LET tag == entry.tag
             ok == {i \in AttrIdx(tag, names) :
                       \E j \in AttrIdx(tag, {"alt"}) : i < j}
         IN  IF ok = {} THEN entry
             ELSE LET i == Max(ok)
                      j == Min({j \in AttrIdx(tag, {"alt"}) : i < j})
                  IN  ImgEntry(tag[j].value, tag[i].value)

\* re.sub(r'<[^>]+>', '', html) (line 1138, CLI 337) on an entry
StripTagEntry(entry) == IF entry.kind = "tag" THEN NoEntry ELSE entry

\* the replace calls of lines 1141-1147 (CLI 340-346) on an entry
DecodeEntry(entry) ==
    [entry EXCEPT !.alt = DecodeEntities(@), !.url = DecodeEntities(@)]

MapEntries(buf, F(_)) == [k \in 1..Len(buf) |-> F(buf[k])]

GuiImgTag(entry) == process_img_tag(entry.tag)
CliDataSrcRule(entry) == CliImageRule(entry, {"data-src"})
CliSrcRule(entry) == CliImageRule(entry, SrcLike)

\* the rewrites of the buffer that touch an <img> tag or what it became
ImgStages(variant) ==
    IF variant = "gui" THEN <<"img", "tags", "entities">>
    ELSE <<"data-src", "src", "tags", "entities">>

ApplyImgStage(stage, buf) ==
    CASE stage = "img"      -> MapEntries(buf, GuiImgTag)
      [] stage = "data-src" -> MapEntries(buf, CliDataSrcRule)
      [] stage = "src"      -> MapEntries(buf, CliSrcRule)
      [] stage = "tags"     -> MapEntries(buf, StripTagEntry)
      [] stage = "entities" -> MapEntries(buf, DecodeEntry)

\* re.finditer(r'<img[^>]*src=["\']([^"\']+)["\']', html, re.I), line 1006:
\* one match for every tag that has a src or data-src attribute, capturing
\* the value of the last of them
CapturedSrcs(html) ==
    LET tags == SelectSeq(html, LAMBDA t : AttrIdx(t, SrcLike) # {})
    IN  [k \in 1..Len(tags) |-> tags[k][Max(AttrIdx(tags[k], SrcLike))].value]

\* the loop of lines 1006-1034 over the captured values
RECURSIVE ExtractAll(_, _, _)
ExtractAll(srcs, base_url, urls) ==
    IF srcs = <<>> THEN urls
    ELSE LET url == NormaliseSrc(srcs[1], base_url)
         IN  ExtractAll(Tail(srcs), base_url,
                        IF url.isNone THEN urls ELSE AppendNew(urls, url.val))

_extract_image_urls(html, base_url) == ExtractAll(CapturedSrcs(html), base_url, <<>>)

ImInit ==
    /\ im_html \in SeqsUpTo(ImgTags, MaxImgTags)
    /\ im_variant \in {"gui", "cli"}
    /\ im_md = [k \in 1..Len(im_html) |-> TagEntry(im_html[k])]
    /\ im_urls = <<>>
    /\ im_stage = 0
    /\ im_pc = "extract"

ImIdle ==
    /\ im_html = <<>>
    /\ im_variant = "gui"
    /\ im_md = <<>>
    /\ im_urls = <<>>
    /\ im_stage = 0
    /\ im_pc = "idle"

\* fetch_article, line 786: image_urls = self._extract_image_urls(content_html, url)
ExtractFragmentImageUrls ==
    /\ im_pc = "extract"
    /\ im_variant = "gui"
    /\ \E b \in BaseUrls : im_urls' = _extract_image_urls(im_html, Some(b))
    /\ im_pc' = "markdown"
    /\ UNCHANGED <<im_html, im_variant, im_md, im_stage>>
    /\ UNCHANGED imOthers

\* parse_article of the command-line tool, line 279: no list of image URLs
CliParseArticle ==
    /\ im_pc = "extract"
    /\ im_variant = "cli"
    /\ im_pc' = "markdown"
    /\ UNCHANGED <<im_html, im_variant, im_md, im_urls, im_stage>>
    /\ UNCHANGED imOthers

\* the next rewrite of the buffer
ImgMarkdownStep ==
    /\ im_pc = "markdown"
    /\ im_stage < Len(ImgStages(im_variant))
    /\ im_md' = ApplyImgStage(ImgStages(im_variant)[im_stage + 1], im_md)
    /\ im_stage' = im_stage + 1
    /\ UNCHANGED <<im_html, im_variant, im_urls, im_pc>>
    /\ UNCHANGED imOthers

ImgMarkdownReturn ==
    /\ im_pc = "markdown"
    /\ im_stage = Len(ImgStages(im_variant))
    /\ im_pc' = "ret"
    /\ UNCHANGED <<im_html, im_variant, im_md, im_urls, im_stage>>
    /\ UNCHANGED imOthers

ImNext ==
    \/ ExtractFragmentImageUrls
    \/ CliParseArticle
    \/ ImgMarkdownStep
    \/ ImgMarkdownReturn

\* the source of a tag as the rule states it: data-src when the tag has one,
\* else src
StatedSrc(tag) ==
    IF AttrIdx(tag, {"data-src"}) # {}
    THEN tag[Min(AttrIdx(tag, {"data-src"}))].value
    ELSE tag[Min(AttrIdx(tag, {"src"}))].value

StatedAlt(tag) ==
    IF AttrIdx(tag, {"alt"}) = {} THEN PlaceholderAlt
    ELSE tag[Min(AttrIdx(tag, {"alt"}))].value

\* '//host/...' expanded to 'https://host/...', entities decoded as the
\* last stage decodes them
StatedUrl(src) ==
    DecodeEntities(IF src[1] = "//" THEN <<"https://">> \o Tail(src) ELSE src)

\* C23: every <img> tag that has a source is rendered as '![alt](url)' with
\* url the value of data-src when the tag has one, whatever the order of its
\* attributes, and of src otherwise; alt is the placeholder when the tag has
\* no alt; a '//host/...' url is expanded to 'https://host/...'.
C23_DataSrcBeforeSrc ==
    im_pc = "ret" =>
        \A k \in 1..Len(im_html) :
            AttrIdx(im_html[k], SrcLike) # {} =>
                im_md[k] = ImgEntry(StatedAlt(im_html[k]),
                                    StatedUrl(StatedSrc(im_html[k])))

\* C26: every http(s) URL that _html_to_markdown wrote into the Markdown of
\* a fragment is an element of _extract_image_urls of the same fragment.
C26_MarkdownImagesAreExtracted ==
    (im_pc = "ret" /\ im_variant = "gui") =>
        \A k \in 1..Len(im_md) :
            (im_md[k].kind = "img" /\ IsAbsoluteUrl(im_md[k].url)) =>
                im_md[k].url \in Range(im_urls)

-----------------------------------------------------------------------------
(* The Markdown transformer: GeneralArticleFetcher._html_to_markdown and    *)
(* html_to_markdown of the command-line tool.  Both apply a fixed sequence  *)
(* of global substitutions to one buffer; each substitution is one step.    *)

POpen  == {"<p>"}
UlOpen == {"<ul>"}
OlOpen == {"<ol>", "<ol start=5>"}
LiOpen == {"<li>", "<li value=9>"}
BrTags == {"<br>", "<br/>"}
CloseTags == {"</p>", "</ul>", "</ol>", "</li>"}
HtmlTags == POpen \cup UlOpen \cup OlOpen \cup LiOpen \cup BrTags \cup CloseTags

\* the first index >= from of a token of `toks`, 0 when there is none
FirstIdx(s, toks, from) ==
    IF \E i \in from..Len(s) : s[i] \in toks
    THEN CHOOSE i \in from..Len(s) :
             s[i] \in toks /\ \A j \in from..(i - 1) : s[j] \notin toks
    ELSE 0

\* the leftmost match of <open[^>]*>(.*?)</close> (DOTALL): [i, j] are the
\* places of the opening and of the closing tag, i = 0 when nothing matches
FirstPair(s, open, close) ==
    LET i == FirstIdx(s, open, 1)
        j == IF i = 0 THEN 0 ELSE FirstIdx(s, {close}, i + 1)
    IN  IF j = 0 THEN [i |-> 0, j |-> 0] ELSE [i |-> i, j |-> j]

Inner(s, m) == SubSeq(s, m.i + 1, m.j - 1)
Before(s, m) == SubSeq(s, 1, m.i - 1)
After(s, m) == SubSeq(s, m.j + 1, Len(s))

\* re.sub(r'<p[^>]*>(.*?)</p>', r'\n\n\1\n', html, flags=re.DOTALL)
RECURSIVE SubParagraphs(_)
SubParagraphs(s) ==
    LET m == FirstPair(s, POpen, "</p>")
    IN  IF m.i = 0 THEN s
        ELSE Before(s, m) \o <<"\n", "\n">> \o Inner(s, m) \o <<"\n">>
                 \o SubParagraphs(After(s, m))

\* re.sub(r'<br\s*/?>', r'  \n', html)
RECURSIVE SubBreaks(_)
SubBreaks(s) ==
    IF s = <<>> THEN <<>>
    ELSE (IF s[1] \in BrTags THEN <<" ", " ", "\n">> ELSE <<s[1]>>)
             \o SubBreaks(Tail(s))

\* re.sub(r'<ul[^>]*>(.*?)</ul>', r'\n\1\n', html, flags=re.DOTALL)
RECURSIVE SubUnorderedLists(_)
SubUnorderedLists(s) ==
    LET m == FirstPair(s, UlOpen, "</ul>")
    IN  IF m.i = 0 THEN s
        ELSE Before(s, m) \o <<"\n">> \o Inner(s, m) \o <<"\n">>
                 \o SubUnorderedLists(After(s, m))

\* re.sub(r'<li[^>]*>(.*?)</li>', r'- \1\n', html, flags=re.DOTALL)
RECURSIVE SubListItems(_)
SubListItems(s) ==
    LET m == FirstPair(s, LiOpen, "</li>")
    IN  IF m.i = 0 THEN s
        ELSE Before(s, m) \o <<"-", " ">> \o Inner(s, m) \o <<"\n">>
                 \o SubListItems(After(s, m))

\* re.findall(r'<li[^>]*>(.*?)</li>', inner, re.DOTALL)
RECURSIVE FindListItems(_)
FindListItems(s) ==
    LET m == FirstPair(s, LiOpen, "</li>")
    IN  IF m.i = 0 THEN <<>>
        ELSE <<Inner(s, m)>> \o FindListItems(After(s, m))

\* the lines 'i. item.strip()\n' of replace_ol for items i0+1, i0+2, ...
RECURSIVE NumberedLines(_, _)
NumberedLines(items, i0) ==
    IF items = <<>> THEN <<>>
    ELSE <<NumStr(i0 + 1), ".", " ">> \o Strip(items[1]) \o <<"\n">>
             \o NumberedLines(Tail(items), i0 + 1)

\* replace_ol(match)
replace_ol(inner) == <<"\n">> \o NumberedLines(FindListItems(inner), 0)

\* re.sub(r'<ol[^>]*>(.*?)</ol>', replace_ol, html, flags=re.DOTALL)
RECURSIVE SubOrderedLists(_)
SubOrderedLists(s) ==
    LET m == FirstPair(s, OlOpen, "</ol>")
    IN  IF m.i = 0 THEN s
        ELSE Before(s, m) \o replace_ol(Inner(s, m))
                 \o SubOrderedLists(After(s, m))

\* re.sub(r'<[^>]+>', '', html)
StripAllTags(s) == SelectSeq(s, LAMBDA tok : tok \notin HtmlTags)

\* re.sub(r'\n{3,}', '\n\n', html)
RECURSIVE CollapseNewlines(_)
CollapseNewlines(s) ==
    IF Len(s) >= 3 /\ s[1] = "\n" /\ s[2] = "\n" /\ s[3] = "\n"
    THEN CollapseNewlines(Tail(s))
    ELSE IF s = <<>> THEN <<>>
    ELSE <<s[1]>> \o CollapseNewlines(Tail(s))

\* line.rstrip() of one line
RECURSIVE RStripEach(_)
RStripEach(lines) ==
    IF lines = <<>> THEN <<>>
    ELSE <<RStrip(lines[1])>> \o RStripEach(Tail(lines))

\* '\n'.join(line.rstrip() for line in html.split('\n'))
RStripLines(s) == Join(RStripEach(Split(s, "\n")), <<"\n">>)

\* the rewrites of _html_to_markdown that act on the tags above, in the
\* order of the source (lines 1071, 1074, 1098, 1099, 1108, 1138, 1153,
\* 1155, 1157)
GuiStages ==
    <<"p", "br", "ul", "li", "ol", "tags", "newlines", "rstrip", "strip">>

\* the rewrites of html_to_markdown and clean_markdown (fetch_article.py
\* lines 298, 301, 316, 317, 327, 337, 219, 221-225, 228)
CliStages ==
    <<"p", "br", "ul", "li", "ol", "tags", "newlines", "rstrip", "strip">>

Stages(variant) == IF variant = "gui" THEN GuiStages ELSE CliStages

ApplyStage(stage, s) ==
    CASE stage = "p"        -> SubParagraphs(s)
      [] stage = "br"       -> SubBreaks(s)
      [] stage = "ul"       -> SubUnorderedLists(s)
      [] stage = "li"       -> SubListItems(s)
      [] stage = "ol"       -> SubOrderedLists(s)
      [] stage = "tags"     -> StripAllTags(s)
      [] stage = "newlines" -> CollapseNewlines(s)
      [] stage = "rstrip"   -> RStripLines(s)
      [] stage = "strip"    -> Strip(s)

\* Input fragments: a sequence of blocks, each a paragraph, a bare text, or
\* a list [kind, open, items]
ItemTexts == {<<"a">>, <<"b">>, <<" ", "a", "<br>">>}

ListBlocks ==
    {[kind |-> "ol", open |-> o, li |-> l, items |-> its] :
        o \in OlOpen, l \in LiOpen, its \in SeqsUpTo(ItemTexts, MaxItems)}
    \cup
    {[kind |-> "ul", open |-> o, li |-> "<li>", items |-> its] :
        o \in UlOpen, its \in SeqsUpTo(ItemTexts, MaxItems)}

\* a paragraph, a bare text, or a paragraph of an indented source: white
\* space, then the paragraph
TextBlocks ==
    {[kind |-> k, open |-> "", li |-> "", items |-> <<t>>] :
        k \in {"p", "text", "indented_p"}, t \in {<<"a">>}}
    \cup
    {[kind |-> "p", open |-> "", li |-> "", items |-> <<t>>] :
        t \in {<<"a", "<br>", "b">>}}

Blocks == ListBlocks \cup TextBlocks

RECURSIVE ItemsHtml(_, _)
ItemsHtml(li, items) ==
    IF items = <<>> THEN <<>>
    ELSE <<li>> \o items[1] \o <<"</li>">> \o ItemsHtml(li, Tail(items))

BlockHtml(b) ==
    CASE b.kind = "ol"   -> <<b.open>> \o ItemsHtml(b.li, b.items) \o <<"</ol>">>
      [] b.kind = "ul"   -> <<b.open>> \o ItemsHtml(b.li, b.items) \o <<"</ul>">>
      [] b.kind = "p"    -> <<"<p>">> \o b.items[1] \o <<"</p>">>
      [] b.kind = "indented_p" -> <<" ", "<p>">> \o b.items[1] \o <<"</p>">>
      [] b.kind = "text" -> b.items[1]

RECURSIVE FragmentHtml(_)
FragmentHtml(blocks) ==
    IF blocks = <<>> THEN <<>>
    ELSE BlockHtml(blocks[1]) \o FragmentHtml(Tail(blocks))

MdInit ==
    /\ md_blocks \in SeqsUpTo(Blocks, MaxBlocks)
    /\ md_variant \in {"gui", "cli"}
    /\ md_text = FragmentHtml(md_blocks)
    /\ md_stage = 0
    /\ md_pc = "run"

MdIdle ==
    /\ md_blocks = <<>>
    /\ md_variant = "gui"
    /\ md_text = <<>>
    /\ md_stage = 0
    /\ md_pc = "idle"

\* the next substitution on the buffer
MarkdownStep ==
    /\ md_pc = "run"
    /\ md_stage < Len(Stages(md_variant))
    /\ md_text' = ApplyStage(Stages(md_variant)[md_stage + 1], md_text)
    /\ md_stage' = md_stage + 1
    /\ UNCHANGED <<md_blocks, md_variant, md_pc>>
    /\ UNCHANGED mdOthers

\* return html.strip()
MarkdownReturn ==
    /\ md_pc = "run"
    /\ md_stage = Len(Stages(md_variant))
    /\ md_pc' = "ret"
    /\ UNCHANGED <<md_blocks, md_variant, md_text, md_stage>>
    /\ UNCHANGED mdOthers

MdNext == MarkdownStep \/ MarkdownReturn

\* the lines '1. item', ..., 'n. item' an ordered list of `items` is to give
RECURSIVE ExpectedOlLines(_, _)
ExpectedOlLines(items, i0) ==
    IF items = <<>> THEN <<>>
    ELSE <<RStrip(<<NumStr(i0 + 1), ".", " ">> \o Strip(SubBreaks(items[1])))>>
             \o ExpectedOlLines(Tail(items), i0 + 1)

\* C8: every ordered list of n items is rendered as the n lines '1. item',
\* '2. item', ..., 'n. item', numbered from 1 in item order whatever the
\* source numbering, every item's text kept.
C8_OrderedListRenumberedFromOne ==
    md_pc = "ret" =>
        \A k \in 1..Len(md_blocks) :
            (md_blocks[k].kind = "ol" /\ md_blocks[k].items # <<>>) =>
                Contains(md_text,
                         Join(ExpectedOlLines(md_blocks[k].items, 0), <<"\n">>))


\* C13: the returned Markdown never holds three or more consecutive newline
\* characters, and none of its lines ends with white space.
C13_NoTripleNewlineNoTrailingSpace ==
    md_pc = "ret" =>
        /\ \A i \in 1..(Len(md_text) - 2) :
               ~(md_text[i] = "\n" /\ md_text[i + 1] = "\n"
                     /\ md_text[i + 2] = "\n")
        /\ \A i \in 1..Len(md_text) :
               md_text[i] = " " =>
                   (i < Len(md_text) /\ md_text[i + 1] # "\n")

\* the number of <br> tags of a text
CountBrTags(s) == Cardinality({i \in 1..Len(s) : s[i] \in BrTags})

\* the number of hard breaks of a text: two spaces, then a newline
CountHardBreaks(s) ==
    Cardinality({i \in 1..(Len(s) - 2) :
                    s[i] = " " /\ s[i + 1] = " " /\ s[i + 2] = "\n"})

\* C24: every <br> of the input is in the returned Markdown as a hard
\* break, two spaces followed by a newline.
C24_EveryBreakIsAHardBreak ==
    md_pc = "ret" =>
        CountHardBreaks(md_text) >= CountBrTags(FragmentHtml(md_blocks))

-----------------------------------------------------------------------------
(* EpubConverter: convert_to_epub and its two tiers *)

\* An image reference of the Markdown is a sequence of tokens.  "images/"
\* is the directory prefix replace_image_urls writes, "https://" a token that
\* begins with 'http', the last token of a file name is its extension.
EpubRefs ==
    { <<"images/", "1", ".jpg">>, <<"pic", ".gif">>, <<"https://", "h1/x", ".png">> }

\* img_ref.startswith('http') (lines 486, 646)
StartsWithHttp(ref) == ref[1] \in {"http://", "https://"}

\* the file an image reference resolves to (lines 484-489, 644-649), None for
\* a reference that is skipped; images_dir is <output dir>/images
ResolveRef(ref) ==
    IF ref[1] = "images/" THEN Some(<<"out/">> \o ref)
    ELSE IF ~StartsWithHttp(ref) THEN Some(<<"out/", "images/">> \o ref)
    ELSE None

EpubFiles == {ResolveRef(r).val : r \in {q \in EpubRefs : ~ResolveRef(q).isNone}}

\* What is at a path: "image" a file PIL decodes, "opaque" a file PIL rejects
\* whose bytes can be read, "locked" a file that exists and cannot be read,
\* "missing" nothing.
FileStates == {"image", "opaque", "locked", "missing"}

\* Path(name).suffix: the last extension of the final component, none when
\* the component is only a leading-dot name such as '.jpg'
PathSuffix(name) ==
    IF Len(name) >= 2 /\ name[Len(name)] \in {".jpg", ".gif", ".png"}
    THEN name[Len(name)] ELSE ""

\* EpubConverter._get_media_type (lines 384-397)
_get_media_type(filename) ==
    LET ext == PathSuffix(filename) IN
    CASE ext = ".jpg" -> "image/jpeg"
      [] ext = ".png" -> "image/png"
      [] ext = ".gif" -> "image/gif"
      [] OTHER -> "application/octet-stream"

DecStr(i) == IF i = 0 THEN "0" ELSE NumStr(i)

Ok(detail) == [ok |-> TRUE, detail |-> detail]
Failed(detail) == [ok |-> FALSE, detail |-> detail]

\* messages of the exceptions the file system and the process launcher raise
OsErrors == {"[Errno 13] Permission denied", "[Errno 28] No space left on device"}

EpInit ==
    /\ ep_refs \in SeqsUpTo(EpubRefs, MaxEpubRefs)
    /\ ep_fs \in [EpubFiles -> FileStates]
    /\ ep_images_dir \in BOOLEAN
    /\ ep_has_pandoc \in BOOLEAN
    /\ ep_pc = "call"
    /\ ep_log = <<>>
    /\ ep_temp_dir = "none"
    /\ ep_staged = <<>>
    /\ ep_temp_html = "missing"
    /\ ep_temp_epub = "missing"
    /\ ep_delegate = None
    /\ ep_i = 0
    /\ ep_images = <<>>
    /\ ep_error = None
    /\ ep_output = [by |-> "nobody", entries |-> <<>>]
    /\ ep_result = None

EpIdle ==
    /\ ep_refs = <<>>
    /\ ep_fs = [f \in EpubFiles |-> "missing"]
    /\ ep_images_dir = FALSE
    /\ ep_has_pandoc = FALSE
    /\ ep_pc = "idle"
    /\ ep_log = <<>>
    /\ ep_temp_dir = "none"
    /\ ep_staged = <<>>
    /\ ep_temp_html = "missing"
    /\ ep_temp_epub = "missing"
    /\ ep_delegate = None
    /\ ep_i = 0
    /\ ep_images = <<>>
    /\ ep_error = None
    /\ ep_output = [by |-> "nobody", entries |-> <<>>]
    /\ ep_result = None

epInputs == <<ep_refs, ep_fs, ep_images_dir, ep_has_pandoc>>
epManual == <<ep_i, ep_images, ep_error>>
epPandoc == <<ep_temp_dir, ep_staged, ep_temp_html, ep_temp_epub, ep_delegate>>

\* convert_to_epub, lines 611-624: the availability probe
ConvertToEpub ==
    /\ ep_pc = "call"
    /\ IF ep_has_pandoc
       THEN ep_pc' = "pandoc_mkdtemp" /\ ep_log' = Append(ep_log, "pandoc")
       ELSE ep_pc' = "manual" /\ ep_log' = Append(ep_log, "manual")
    /\ UNCHANGED <<epInputs, epManual, epPandoc, ep_output, ep_result>>
    /\ UNCHANGED epOthers

\* what the `except` of _convert_with_pandoc leaves behind (lines 588-593)
PandocRaise(msg) ==
    /\ ep_delegate' = Some(Failed(msg))
    /\ ep_temp_dir' = IF ep_temp_dir = "exists" THEN "removed" ELSE ep_temp_dir
    /\ ep_pc' = "pandoc_ret"

\* the early return forgets the temporary directory
PandocGiveUp_KeepDir(msg) ==
    /\ ep_delegate' = Some(Failed(msg))
    /\ ep_temp_dir' = ep_temp_dir
    /\ ep_pc' = "pandoc_ret"

\* what an early `return False, ...` of _convert_with_pandoc leaves behind
PandocGiveUp(msg) ==
    /\ ep_delegate' = Some(Failed(msg))
    /\ ep_temp_dir' = "removed"
    /\ ep_pc' = "pandoc_ret"

\* line 468
PandocMkdtemp ==
    /\ ep_pc = "pandoc_mkdtemp"
    /\ \/ /\ ep_temp_dir' = "exists"
          /\ ep_pc' = "pandoc_stage"
          /\ UNCHANGED ep_delegate
       \/ \E e \in OsErrors : PandocRaise(e)
    /\ UNCHANGED <<epInputs, epManual, ep_staged, ep_temp_html, ep_temp_epub,
                   ep_log, ep_output, ep_result>>
    /\ UNCHANGED epOthers

\* the references the image loops look at: none without an images_dir
\* (`if images_dir and image_refs`, lines 481 and 638)
LoopRefs == IF ep_images_dir THEN ep_refs ELSE <<>>

\* the staged copies of lines 483-508, img_counter counting from `n`
RECURSIVE StagedNames(_, _, _)
StagedNames(refs, fs, n) ==
    IF refs = <<>> THEN <<>>
    ELSE LET p == ResolveRef(refs[1]) IN
         IF p.isNone \/ fs[p.val] = "missing"
         THEN StagedNames(Tail(refs), fs, n)
         ELSE <<IF fs[p.val] = "image"
                THEN <<"media/", "img_", DecStr(n + 1), ".png">>
                ELSE <<"media/", "img_", DecStr(n + 1), PathSuffix(p.val)>>>>
              \o StagedNames(Tail(refs), fs, n + 1)

\* shutil.copy2 of line 506 raises on a file that cannot be read
StagingRaises ==
    \E i \in 1..Len(LoopRefs) :
        /\ ~ResolveRef(LoopRefs[i]).isNone
        /\ ep_fs[ResolveRef(LoopRefs[i]).val] = "locked"

\* lines 471-522: media directory, image staging, the temporary Markdown
PandocStage ==
    /\ ep_pc = "pandoc_stage"
    /\ \/ /\ ~StagingRaises
          /\ ep_staged' = StagedNames(LoopRefs, ep_fs, 0)
          /\ ep_pc' = "pandoc_md_html"
          /\ UNCHANGED <<ep_delegate, ep_temp_dir>>
       \/ /\ StagingRaises
          /\ PandocRaise("[Errno 13] Permission denied")
          /\ UNCHANGED ep_staged
       \/ /\ \E e \in OsErrors : PandocRaise(e)
          /\ UNCHANGED ep_staged
    /\ UNCHANGED <<epInputs, epManual, ep_temp_html, ep_temp_epub,
                   ep_log, ep_output, ep_result>>
    /\ UNCHANGED epOthers

\* what a run of the external tool can leave at its output path
ToolOutputs == {"missing", "empty", "ok"}

\* lines 535-541: stage 1, Markdown -> HTML; only the exit status is looked at
PandocMdToHtml ==
    /\ ep_pc = "pandoc_md_html"
    /\ \/ \E out \in ToolOutputs :
             /\ ep_temp_html' = out
             /\ ep_pc' = "pandoc_html_epub"
             /\ UNCHANGED <<ep_delegate, ep_temp_dir>>
       \/ /\ PandocGiveUp("Pandoc MD->HTML failed")
          /\ UNCHANGED ep_temp_html
       \/ /\ \E e \in OsErrors : PandocRaise(e)
          /\ UNCHANGED ep_temp_html
    /\ UNCHANGED <<epInputs, epManual, ep_staged, ep_temp_epub,
                   ep_log, ep_output, ep_result>>
    /\ UNCHANGED epOthers

\* lines 564-570: stage 2, HTML -> EPUB; the tool exits non-zero when its
\* input file does not exist
PandocHtmlToEpub ==
    /\ ep_pc = "pandoc_html_epub"
    /\ \/ /\ ep_temp_html # "missing"
          /\ \E out \in ToolOutputs : ep_temp_epub' = out
          /\ ep_pc' = "pandoc_verify"
          /\ UNCHANGED <<ep_delegate, ep_temp_dir>>
       \/ /\ PandocGiveUp("Pandoc HTML->EPUB failed")
          /\ UNCHANGED ep_temp_epub
       \/ /\ \E e \in OsErrors : PandocRaise(e)
          /\ UNCHANGED ep_temp_epub
    /\ UNCHANGED <<epInputs, epManual, ep_staged, ep_temp_html,
                   ep_log, ep_output, ep_result>>
    /\ UNCHANGED epOthers

\* lines 573-586: the produced file is verified, copied to output_path, and
\* the temporary directory removed
PandocVerifyAndCopy ==
    /\ ep_pc = "pandoc_verify"
    /\ \/ /\ ep_temp_epub # "ok"
          /\ PandocGiveUp("EPUB file was not created or is empty")
          /\ UNCHANGED ep_output
       \/ /\ ep_temp_epub = "ok"
          /\ ep_output' = [by |-> "pandoc", entries |-> <<>>]
          /\ ep_delegate' = Some(Ok("output_path"))
          /\ ep_temp_dir' = "removed"
          /\ ep_pc' = "pandoc_ret"
       \/ /\ ep_temp_epub = "ok"
          /\ \E e \in OsErrors : PandocRaise(e)
          /\ UNCHANGED ep_output
    /\ UNCHANGED <<epInputs, epManual, ep_staged, ep_temp_html, ep_temp_epub,
                   ep_log, ep_result>>
    /\ UNCHANGED epOthers

\* convert_to_epub, lines 614-624: the delegate's success is the result, its
\* failure is logged and the manual tier follows
PandocReturn ==
    /\ ep_pc = "pandoc_ret"
    /\ IF ep_delegate.val.ok
       THEN /\ ep_result' = Some(ep_delegate.val)
            /\ ep_pc' = "ret"
            /\ UNCHANGED ep_log
       ELSE /\ ep_pc' = "manual"
            /\ ep_log' = Append(ep_log, "manual")
            /\ UNCHANGED ep_result
    /\ UNCHANGED <<epInputs, epManual, epPandoc, ep_output>>
    /\ UNCHANGED epOthers

DelegateWasFailed == ~ep_delegate.isNone /\ ~ep_delegate.val.ok

\* one element of the `images` list (lines 659-664, 671-676); `i` is the
\* index enumerate() gives the reference among all references
PngImage(ref, i) ==
    [original_ref |-> ref,
     epub_path |-> <<"images/", "img_", DecStr(i), ".png">>,
     image_data |-> "png bytes",
     media_type |-> "image/png"]

OriginalImage(ref, i, path) ==
    [original_ref |-> ref,
     epub_path |-> <<"images/", "img_", DecStr(i), PathSuffix(path)>>,
     image_data |-> "original bytes",
     media_type |-> _get_media_type(<<PathSuffix(path)>>)]

\* the manifest of _create_content_opf (lines 244-255)
Manifest(images) ==
    << [id |-> <<"content">>, href |-> <<"content.xhtml">>,
        media_type |-> "application/xhtml+xml"],
       [id |-> <<"nav">>, href |-> <<"nav.xhtml">>,
        media_type |-> "application/xhtml+xml"],
       [id |-> <<"ncx">>, href |-> <<"toc.ncx">>,
        media_type |-> "application/x-dtbncx+xml"] >>
    \o [k \in 1..Len(images) |->
          [id |-> <<"img", DecStr(k - 1)>>, href |-> images[k].epub_path,
           media_type |-> images[k].media_type]]

ZipEntry(name, compress_type, data) ==
    [name |-> name, compress_type |-> compress_type, data |-> data]

\* the entry deflated like the others
MimetypeEntry_Deflated == ZipEntry(<<"mimetype">>, "ZIP_DEFLATED", "application/epub+zip")

\* line 693
MimetypeEntry == ZipEntry(<<"mimetype">>, "ZIP_STORED", "application/epub+zip")

\* lines 691-714: the entries in the order they are written; ZIP_DEFLATED is
\* the archive's default
ArchiveEntries(images) ==
    << MimetypeEntry,
       ZipEntry(<<"META-INF/", "container.xml">>, "ZIP_DEFLATED",
                [rootfile |-> <<"OEBPS/", "content.opf">>]),
       ZipEntry(<<"OEBPS/", "content.opf">>, "ZIP_DEFLATED",
                [manifest |-> Manifest(images)]),
       ZipEntry(<<"OEBPS/", "nav.xhtml">>, "ZIP_DEFLATED",
                [toc |-> <<"content.xhtml">>]),
       ZipEntry(<<"OEBPS/", "toc.ncx">>, "ZIP_DEFLATED",
                [toc |-> <<"content.xhtml">>]),
       ZipEntry(<<"OEBPS/", "content.xhtml">>, "ZIP_DEFLATED",
                [images |-> [k \in 1..Len(images) |-> images[k].epub_path]]) >>
    \o [k \in 1..Len(images) |->
          ZipEntry(<<"OEBPS/">> \o images[k].epub_path, "ZIP_DEFLATED",
                   images[k].image_data)]

\* the delegate's error reported in place of the manual tier's
ManualFailure_DelegateDetail(e) ==
    IF DelegateWasFailed THEN Failed(ep_delegate.val.detail) ELSE Failed(e)

\* lines 719-721
ManualFailure(e) == Failed(e)

\* lines 642-677: one turn of the image loop of the manual tier
ManualCollectImage ==
    /\ ep_pc = "manual"
    /\ ep_i < Len(LoopRefs)
    /\ LET ref == LoopRefs[ep_i + 1]
           p == ResolveRef(ref)
           found == IF p.isNone THEN "missing" ELSE ep_fs[p.val]
       IN  IF found = "locked"
           THEN /\ ep_error' = Some("[Errno 13] Permission denied")
                /\ ep_result' = Some(ManualFailure("[Errno 13] Permission denied"))
                /\ ep_pc' = "ret"
                /\ UNCHANGED <<ep_i, ep_images>>
           ELSE /\ ep_i' = ep_i + 1
                /\ ep_images' =
                     CASE found = "image" -> Append(ep_images, PngImage(ref, ep_i))
                       [] found = "opaque" ->
                            Append(ep_images, OriginalImage(ref, ep_i, p.val))
                       [] OTHER -> ep_images
                /\ UNCHANGED <<ep_error, ep_result, ep_pc>>
    /\ UNCHANGED <<epInputs, epPandoc, ep_log, ep_output>>
    /\ UNCHANGED epOthers

\* lines 680-717: the archive is written to output_path; an error while
\* writing leaves the entries written so far
ManualWriteArchive ==
    /\ ep_pc = "manual"
    /\ ep_i = Len(LoopRefs)
    /\ \/ /\ ep_output' = [by |-> "manual", entries |-> ArchiveEntries(ep_images)]
          /\ ep_result' = Some(Ok("output_path"))
          /\ UNCHANGED ep_error
       \/ \E e \in OsErrors, k \in 0..(Len(ArchiveEntries(ep_images)) - 1) :
             /\ ep_output' = [by |-> "manual",
                              entries |-> SubSeq(ArchiveEntries(ep_images), 1, k)]
             /\ ep_error' = Some(e)
             /\ ep_result' = Some(ManualFailure(e))
    /\ ep_pc' = "ret"
    /\ UNCHANGED <<epInputs, epPandoc, ep_i, ep_images, ep_log>>
    /\ UNCHANGED epOthers

EpNext ==
    \/ ConvertToEpub
    \/ PandocMkdtemp
    \/ PandocStage
    \/ PandocMdToHtml
    \/ PandocHtmlToEpub
    \/ PandocVerifyAndCopy
    \/ PandocReturn
    \/ ManualCollectImage
    \/ ManualWriteArchive

\* the tiers that ran, from the lines convert_to_epub logs when it enters one
ManualTierRan == \E k \in 1..Len(ep_log) : ep_log[k] = "manual"

\* C2: with the tool available the delegate tier runs first and its success
\* is the result; without the tool, or after any failure of the delegate,
\* the manual tier runs; convert_to_epub reports failure only when the manual
\* tier failed, and the detail it returns is then the manual tier's error.
C2_FailureOnlyWhenFallbackFailed ==
    ep_pc = "ret" =>
        /\ ep_has_pandoc => (ep_log[1] = "pandoc" /\ ~ep_delegate.isNone)
        /\ ~ep_has_pandoc => ep_delegate.isNone
        /\ (~ep_delegate.isNone /\ ep_delegate.val.ok) =>
               (ep_result.val = ep_delegate.val /\ ~ManualTierRan)
        /\ (~ep_has_pandoc \/ DelegateWasFailed) => ManualTierRan
        /\ (ManualTierRan /\ ep_error.isNone) => ep_result.val.ok
        /\ ~ep_result.val.ok =>
               /\ ManualTierRan
               /\ ~ep_error.isNone
               /\ ep_result.val.detail = ep_error.val

\* both tiers failed, with different errors
C2_Witness ==
    /\ ep_pc = "ret"
    /\ DelegateWasFailed
    /\ ~ep_result.val.ok
    /\ ep_delegate.val.detail # ep_result.val.detail

\* the positions of the image entries of an archive
ImageEntryIdx(entries) ==
    {k \in 1..Len(entries) :
        /\ Len(entries[k].name) >= 2
        /\ entries[k].name[1] = "OEBPS/"
        /\ entries[k].name[2] = "images/"}

CountNamed(entries, name) ==
    Cardinality({k \in 1..Len(entries) : entries[k].name = name})

\* the references that resolve to a file that is there
ResolvedRefs ==
    {i \in 1..Len(LoopRefs) :
        /\ ~ResolveRef(LoopRefs[i]).isNone
        /\ ep_fs[ResolveRef(LoopRefs[i]).val] # "missing"}

ManualArchiveProduced ==
    /\ ep_pc = "ret"
    /\ ep_result.val.ok
    /\ ep_output.by = "manual"

\* C3: an archive the manual tier produces starts with the entry 'mimetype',
\* stored, holding 'application/epub+zip'; every other entry is deflated;
\* there is exactly one OEBPS/content.opf, one OEBPS/nav.xhtml, one
\* OEBPS/toc.ncx, and exactly one image entry for every image reference that
\* resolved to a file.
C3_FallbackArchiveLayout ==
    ManualArchiveProduced =>
        LET es == ep_output.entries IN
        /\ es[1].name = <<"mimetype">>
        /\ es[1].compress_type = "ZIP_STORED"
        /\ es[1].data = "application/epub+zip"
        /\ \A k \in 2..Len(es) : es[k].compress_type = "ZIP_DEFLATED"
        /\ CountNamed(es, <<"OEBPS/", "content.opf">>) = 1
        /\ CountNamed(es, <<"OEBPS/", "nav.xhtml">>) = 1
        /\ CountNamed(es, <<"OEBPS/", "toc.ncx">>) = 1
        /\ Cardinality(ImageEntryIdx(es)) = Cardinality(ResolvedRefs)
        /\ \A i \in ResolvedRefs :
               Cardinality({k \in ImageEntryIdx(es) :
                               es[k].name[4] = DecStr(i - 1)}) = 1

\* an archive with the same file referenced twice, and a second local image
C3_Witness ==
    /\ ManualArchiveProduced
    /\ Len(ep_refs) = 2
    /\ ep_refs[1] = ep_refs[2]
    /\ Cardinality(ImageEntryIdx(ep_output.entries)) = 2

\* C19: the delegate reports success only when both stages left an output
\* that exists and is not empty; after any failure of the delegate the manual
\* tier runs.
C19_DelegateSucceedsOnlyWithBothOutputs ==
    ~ep_delegate.isNone =>
        /\ ep_delegate.val.ok => (ep_temp_html = "ok" /\ ep_temp_epub = "ok")
        /\ (ep_pc = "ret" /\ ~ep_delegate.val.ok) => ManualTierRan

\* C28: once the delegate has returned, by success, by an early failure or
\* through its exception handler, the temporary directory it made is gone.
C28_StagingDirectoryRemoved ==
    ~ep_delegate.isNone => ep_temp_dir # "exists"

\* the second stage left no output: the delegate failed at its verification,
\* after the directory was made and filled
C28_Witness ==
    /\ ~ep_delegate.isNone
    /\ ep_delegate.val = Failed("EPUB file was not created or is empty")
    /\ ep_temp_html = "ok"
    /\ ep_temp_dir = "removed"

\* the media type that goes with the bytes of a file of extension `ext`
TypeOfExtension(ext) ==
    CASE ext = ".jpg" -> "image/jpeg"
      [] ext = ".gif" -> "image/gif"
      [] ext = ".png" -> "image/png"

\* the manifest written into the package document of an archive
ManifestOf(entries) ==
    LET k == CHOOSE k \in 1..Len(entries) :
                 entries[k].name = <<"OEBPS/", "content.opf">>
    IN  entries[k].data.manifest

\* C14: the manifest of an archive of the manual tier lists the content
\* document, the navigation document, the legacy TOC and every packaged
\* image, each image with the media type of its packaged bytes: image/png
\* for a re-encoded image, the type of the original extension for an image
\* whose original bytes were copied.
C14_ManifestMediaTypesMatchBytes ==
    ManualArchiveProduced =>
        LET es == ep_output.entries
            man == ManifestOf(es)
            Listed(href, type) ==
                \E m \in 1..Len(man) :
                    man[m].href = href /\ man[m].media_type = type
        IN  /\ Listed(<<"content.xhtml">>, "application/xhtml+xml")
            /\ Listed(<<"nav.xhtml">>, "application/xhtml+xml")
            /\ Listed(<<"toc.ncx">>, "application/x-dtbncx+xml")
            /\ \A k \in ImageEntryIdx(es) :
                   Listed(Tail(es[k].name),
                          IF es[k].data = "png bytes" THEN "image/png"
                          ELSE TypeOfExtension(es[k].name[Len(es[k].name)]))

-----------------------------------------------------------------------------
(* The content document of the manual tier: the image loop, the rewrite of *)
(* the references, _strip_markdown_header, _markdown_to_html and           *)
(* _create_content_xhtml, on a Markdown made of a title line, a citation   *)
(* block, a rule and a body line with image references.                   *)

\* most image references in the body
MaxDocRefs == 2

\* the labels _generate_markdown writes in the citation block (lines
\* 1163-1165) and _strip_markdown_header looks for (line 436); the tokens
\* stand for the three bold labels of the source, which are not ASCII
GeneratedLabels == {"**zuozhe**", "**yuanwen-lianjie**", "**baocun-riqi**"}
\* the labels of a citation block written in English
EnglishLabels == {"**Author**", "**Source**", "**Saved**"}

CitationLine(label) == <<">", " ", label, ": v", "\n">>

\* the header of the Markdown: title line, citation block, rule
DocHeader(style) ==
    <<"# ", "T", "\n", "\n">>
    \o (IF style = "generated"
        THEN CitationLine("**zuozhe**") \o CitationLine("**yuanwen-lianjie**")
                 \o CitationLine("**baocun-riqi**")
        ELSE CitationLine("**Author**") \o CitationLine("**Source**")
                 \o CitationLine("**Saved**"))
    \o <<"\n", "---", "\n", "\n">>

\* local image references: in a directory that is not the images directory,
\* bare, and under 'images/' as replace_image_urls writes them
DocRefs == { <<"img/", "a", ".png">>, <<"a", ".png">>, <<"images/", "a", ".png">> }

RECURSIVE DocBodyImages(_)
DocBodyImages(refs) ==
    IF refs = <<>> THEN <<>>
    ELSE <<" ", "![x](">> \o refs[1] \o <<")">> \o DocBodyImages(Tail(refs))

DocMarkdown(style, refs) ==
    DocHeader(style) \o <<"Body">> \o DocBodyImages(refs) \o <<"\n">>

\* the files of the model: a.png in images_dir, and a.png in its
\* subdirectory img
DocFiles == { <<"out/", "images/", "a", ".png">>,
              <<"out/", "images/", "img/", "a", ".png">> }

\* re.findall(r'!\[[^\]]*\]\(([^)]+)\)', md_content)
RECURSIVE FindImageRefs(_)
FindImageRefs(s) ==
    LET m == FirstPair(s, {"![x]("}, ")")
    IN  IF m.i = 0 THEN <<>>
        ELSE <<Inner(s, m)>> \o FindImageRefs(After(s, m))

\* the image loop of lines 642-677 for readable files; `i` is the index
\* enumerate() gives the reference
RECURSIVE CollectImages(_, _, _)
CollectImages(refs, fs, i) ==
    IF refs = <<>> THEN <<>>
    ELSE LET p == ResolveRef(refs[1])
             found == IF p.isNone THEN "missing" ELSE fs[p.val]
         IN  (CASE found = "image" -> <<PngImage(refs[1], i)>>
                [] found = "opaque" -> <<OriginalImage(refs[1], i, p.val)>>
                [] OTHER -> <<>>)
             \o CollectImages(Tail(refs), fs, i + 1)

\* lines 680-682: md_updated.replace(original_ref, epub_path), image by image
RECURSIVE UpdateRefs(_, _)
UpdateRefs(md, images) ==
    IF images = <<>> THEN md
    ELSE UpdateRefs(StrReplace(md, images[1].original_ref, images[1].epub_path),
                    Tail(images))

\* the loop of _strip_markdown_header (lines 429-453) over the lines left
RECURSIVE StripHeaderLines(_, _)
StripHeaderLines(lines, in_header) ==
    IF lines = <<>> THEN <<>>
    ELSE LET line == lines[1]
             stripped == Strip(line)
         IN  IF ~in_header
             THEN <<line>> \o StripHeaderLines(Tail(lines), FALSE)
             ELSE IF stripped # <<>> /\ stripped[1] = "# "
             THEN StripHeaderLines(Tail(lines), TRUE)
             ELSE IF /\ stripped # <<>>
                     /\ stripped[1] = ">"
                     /\ Range(stripped) \cap GeneratedLabels # {}
             THEN StripHeaderLines(Tail(lines), TRUE)
             ELSE IF stripped = <<>>
             THEN StripHeaderLines(Tail(lines), TRUE)
             ELSE IF stripped = <<"---">>
             THEN StripHeaderLines(Tail(lines), FALSE)
             ELSE <<line>> \o StripHeaderLines(Tail(lines), FALSE)

_strip_markdown_header(md_content) ==
    Join(StripHeaderLines(Split(md_content, "\n"), TRUE), <<"\n">>)

\* the rewrite of every line of a text
MapLines(s, F(_)) ==
    LET lines == Split(s, "\n")
    IN  Join([k \in 1..Len(lines) |-> F(lines[k])], <<"\n">>)

\* re.sub(r'^#\s+(.+)$', r'<h1>\1</h1>', html, flags=re.MULTILINE)
HeadingLine(line) ==
    IF Len(line) >= 2 /\ line[1] = "# "
    THEN <<"<h1>">> \o Tail(line) \o <<"</h1>">> ELSE line

\* re.sub(r'!\[([^\]]*)\]\(([^)]+)\)', r'<img src="\2" alt="\1"/>', html)
RECURSIVE SubImageRefs(_)
SubImageRefs(s) ==
    LET m == FirstPair(s, {"![x]("}, ")")
    IN  IF m.i = 0 THEN s
        ELSE Before(s, m) \o <<"<img src=">> \o Inner(s, m) \o <<" alt=x/>">>
                 \o SubImageRefs(After(s, m))

\* re.sub(r'\*\*([^*]+)\*\*', r'<strong>\1</strong>', html) on a label
BoldToken(tok) ==
    CASE tok = "**zuozhe**" -> "<strong>zuozhe</strong>"
      [] tok = "**yuanwen-lianjie**" -> "<strong>yuanwen-lianjie</strong>"
      [] tok = "**baocun-riqi**" -> "<strong>baocun-riqi</strong>"
      [] tok = "**Author**" -> "<strong>Author</strong>"
      [] tok = "**Source**" -> "<strong>Source</strong>"
      [] tok = "**Saved**" -> "<strong>Saved</strong>"
      [] OTHER -> tok

SubBold(s) == [k \in 1..Len(s) |-> BoldToken(s[k])]

\* re.sub(r'^>\s*(.+)$', r'<blockquote>\1</blockquote>', html, flags=re.MULTILINE)
QuoteLine(line) ==
    IF line # <<>> /\ line[1] = ">" /\ LStrip(Tail(line)) # <<>>
    THEN <<"<blockquote>">> \o LStrip(Tail(line)) \o <<"</blockquote>">>
    ELSE line

\* re.sub(r'^---$', r'<hr/>', html, flags=re.MULTILINE)
RuleLine(line) == IF line = <<"---">> THEN <<"<hr/>">> ELSE line

\* the tokens that begin with '<', and those that end with '>'
OpensWithLt ==
    {"<h1>", "<img src=", "<blockquote>", "<hr/>"}
        \cup {BoldToken(l) : l \in GeneratedLabels \cup EnglishLabels}
EndsWithGt ==
    {"</h1>", " alt=x/>", "</blockquote>", "<hr/>"}
        \cup {BoldToken(l) : l \in GeneratedLabels \cup EnglishLabels}

\* line 216; no line of the model begins with '</'
IsHtmlTagLine(stripped) ==
    /\ stripped # <<>>
    /\ stripped[1] \in OpensWithLt
    /\ stripped[Len(stripped)] \in EndsWithGt

ParagraphOf(paragraph_content) ==
    <<"<p>">> \o Join(paragraph_content, <<" ">>) \o <<"</p>">>

\* the paragraph loop of lines 213-233
RECURSIVE WrapParagraphs(_, _)
WrapParagraphs(lines, paragraph_content) ==
    IF lines = <<>>
    THEN IF paragraph_content # <<>> THEN <<ParagraphOf(paragraph_content)>>
         ELSE <<>>
    ELSE LET stripped == Strip(lines[1]) IN
         IF IsHtmlTagLine(stripped) \/ stripped = <<>>
         THEN (IF paragraph_content # <<>>
               THEN <<ParagraphOf(paragraph_content)>> ELSE <<>>)
              \o <<lines[1]>> \o WrapParagraphs(Tail(lines), <<>>)
         ELSE WrapParagraphs(Tail(lines), Append(paragraph_content, stripped))

\* _markdown_to_html (lines 174-240); the rewrites of links, italics, code
\* and list items match nothing in the texts of the model
_markdown_to_html(md_content) ==
    LET headed == MapLines(md_content, HeadingLine)
        imaged == SubImageRefs(headed)
        bolded == SubBold(imaged)
        quoted == MapLines(bolded, QuoteLine)
        ruled  == MapLines(quoted, RuleLine)
        wrapped == Join(WrapParagraphs(Split(ruled, "\n"), <<>>), <<"\n">>)
    IN  CollapseNewlines(wrapped)

\* the <body> of _create_content_xhtml (lines 365-372)
_create_content_xhtml(title, html_content) ==
    <<"<body>", "<h1>", title, "</h1>", "\n",
      "<p byline>", "Author: A | Source: s | Date: d", "</p>", "\n",
      "<hr/>", "\n">> \o html_content \o <<"\n", "</body>">>

CdInit ==
    /\ \E style \in {"generated", "english"} :
       \E refs \in SeqsUpTo(DocRefs, MaxDocRefs) \ {<<>>} :
           cd_md = DocMarkdown(style, refs)
    /\ cd_fs \in [DocFiles -> {"image", "opaque", "missing"}]
    /\ cd_images = <<>>
    /\ cd_text = <<>>
    /\ cd_entries = <<>>
    /\ cd_pc = "collect"

CdIdle ==
    /\ cd_md = <<>>
    /\ cd_fs = [f \in DocFiles |-> "missing"]
    /\ cd_images = <<>>
    /\ cd_text = <<>>
    /\ cd_entries = <<>>
    /\ cd_pc = "idle"

\* lines 634-677: the references are found and the files collected
CollectDocImages ==
    /\ cd_pc = "collect"
    /\ cd_images' = CollectImages(FindImageRefs(cd_md), cd_fs, 0)
    /\ cd_pc' = "update"
    /\ UNCHANGED <<cd_md, cd_fs, cd_text, cd_entries>>
    /\ UNCHANGED cdOthers

\* lines 680-682
UpdateDocRefs ==
    /\ cd_pc = "update"
    /\ cd_text' = UpdateRefs(cd_md, cd_images)
    /\ cd_pc' = "strip"
    /\ UNCHANGED <<cd_md, cd_fs, cd_images, cd_entries>>
    /\ UNCHANGED cdOthers

\* line 685
StripDocHeader ==
    /\ cd_pc = "strip"
    /\ cd_text' = _strip_markdown_header(cd_text)
    /\ cd_pc' = "html"
    /\ UNCHANGED <<cd_md, cd_fs, cd_images, cd_entries>>
    /\ UNCHANGED cdOthers

\* line 686
DocMarkdownToHtml ==
    /\ cd_pc = "html"
    /\ cd_text' = _markdown_to_html(cd_text)
    /\ cd_pc' = "write"
    /\ UNCHANGED <<cd_md, cd_fs, cd_images, cd_entries>>
    /\ UNCHANGED cdOthers

\* lines 691-717: the archive is written, its content document made of the
\* title and html_content
WriteDocArchive ==
    /\ cd_pc = "write"
    /\ cd_entries' =
         [ArchiveEntries(cd_images) EXCEPT
            ![6] = ZipEntry(<<"OEBPS/", "content.xhtml">>, "ZIP_DEFLATED",
                            _create_content_xhtml("T", cd_text))]
    /\ cd_pc' = "ret"
    /\ UNCHANGED <<cd_md, cd_fs, cd_images, cd_text>>
    /\ UNCHANGED cdOthers

CdNext ==
    \/ CollectDocImages
    \/ UpdateDocRefs
    \/ StripDocHeader
    \/ DocMarkdownToHtml
    \/ WriteDocArchive

\* the content document of the archive
ContentDocument == cd_entries[6].data

\* the src of every <img> of a document
RECURSIVE ImgSrcs(_)
ImgSrcs(doc) ==
    LET m == FirstPair(doc, {"<img src="}, " alt=x/>")
    IN  IF m.i = 0 THEN <<>>
        ELSE <<Inner(doc, m)>> \o ImgSrcs(After(doc, m))

\* the file of images_dir an image reference names
FileInImagesDir(ref) == <<"out/", "images/">> \o SubSeq(ref, Len(ref) - 1, Len(ref))

\* every reference of the body is local and its file is in images_dir
AllRefsPresent ==
    \A r \in Range(FindImageRefs(cd_md)) :
        ~StartsWithHttp(r) /\ cd_fs[FileInImagesDir(r)] # "missing"

\* what a copy of the citation block in the document is made of
CitationTokens ==
    GeneratedLabels \cup EnglishLabels \cup {"<blockquote>"}
        \cup {BoldToken(l) : l \in GeneratedLabels \cup EnglishLabels}

\* C15: through the manual tier, for a Markdown made of a title line, a
\* citation block, a rule and a body whose image references name files
\* present in images_dir, the content document holds the title as <h1>, one
\* byline, no copy of the citation block, and every <img> of it has as src
\* the path of an image entry of the archive.
C15_ContentDocumentOfFallbackTier ==
    (cd_pc = "ret" /\ AllRefsPresent) =>
        LET doc == ContentDocument IN
        /\ Contains(doc, <<"<h1>", "T", "</h1>">>)
        /\ Cardinality({k \in 1..Len(doc) : doc[k] = "<p byline>"}) = 1
        /\ Range(doc) \cap CitationTokens = {}
        /\ ImgSrcs(doc) # <<>>
        /\ \A k \in 1..Len(ImgSrcs(doc)) :
               \E e \in ImageEntryIdx(cd_entries) :
                   cd_entries[e].name = <<"OEBPS/">> \o ImgSrcs(doc)[k]

-----------------------------------------------------------------------------
(* _generate_markdown (GeneralArticleFetcher) followed by                  *)
(* _strip_markdown_header (EpubConverter).                                 *)

\* most lines of a body
MaxBodyLines == 3

\* titles and authors as the extraction rules return them: stripped at both
\* ends, possibly holding a newline (the title patterns use re.DOTALL, the
\* content="..." patterns [^"]*)
HeaderTexts == {<<"T">>, <<"T", "\n", "U">>}

\* the lines of a body: a heading, a quotation, a horizontal rule, a text
BodyLines == {<<"# ", "H">>, <<">", " ", "q">>, <<"---">>, <<"x">>}

\* '> **label**: value\n'
GeneratedCitation(label, value) == <<">", " ", label, ": ">> \o value \o <<"\n">>

\* the f-string of lines 1162-1171; "u" is the URL, "d" the date
_generate_markdown(url, title, author, content) ==
    <<"# ">> \o title \o <<"\n", "\n">>
        \o GeneratedCitation("**zuozhe**", author)
        \o GeneratedCitation("**yuanwen-lianjie**", url)
        \o GeneratedCitation("**baocun-riqi**", <<"d">>)
        \o <<"\n", "---", "\n", "\n">>
        \o content \o <<"\n">>

RtInit ==
    /\ rt_title \in HeaderTexts
    /\ rt_author \in HeaderTexts
    /\ rt_body \in {Join(ls, <<"\n">>) : ls \in SeqsUpTo(BodyLines, MaxBodyLines) \ {<<>>}}
    /\ rt_text = <<>>
    /\ rt_pc = "generate"

RtIdle ==
    /\ rt_title = <<>>
    /\ rt_author = <<>>
    /\ rt_body = <<>>
    /\ rt_text = <<>>
    /\ rt_pc = "idle"

\* fetch_article, line 792
GenerateMarkdown ==
    /\ rt_pc = "generate"
    /\ rt_text' = _generate_markdown(<<"u">>, rt_title, rt_author, rt_body)
    /\ rt_pc' = "strip"
    /\ UNCHANGED <<rt_title, rt_author, rt_body>>
    /\ UNCHANGED rtOthers

\* _create_epub_manually, the call of _strip_markdown_header
StripMarkdownHeader ==
    /\ rt_pc = "strip"
    /\ rt_text' = _strip_markdown_header(rt_text)
    /\ rt_pc' = "ret"
    /\ UNCHANGED <<rt_title, rt_author, rt_body>>
    /\ UNCHANGED rtOthers

RtNext == GenerateMarkdown \/ StripMarkdownHeader

\* C27: stripping the document _generate_markdown builds returns the body,
\* its lines unchanged and in order, with no line of the title or of the
\* citation block left and no line of the body dropped (blank lines at
\* either end set aside).
C27_StripUndoesGenerate ==
    rt_pc = "ret" => Strip(rt_text) = rt_body

-----------------------------------------------------------------------------
(* ImageDownloader: get_image_extension, download_image, download_images *)

\* type_map of get_image_extension (lines 53-62), for the content types the
\* model's servers answer with
TypeMap == [t \in {"image/gif", "image/png"} |->
               IF t = "image/gif" THEN ".gif" ELSE ".png"]

\* what a server announces as Content-Type: a type of type_map, a type that
\* is not in it, no header at all
ContentTypes == {"image/gif", "text/html", ""}

\* the image extension a token ends with, "" when it ends with none
TokenExt(tok) == IF tok = "/a.png" THEN ".png" ELSE ""

\* re.search(r'\.(jpg|...|avif)(\?|$)', url): the first extension that is
\* followed by '?' or by the end of the URL
UrlExtMatches(url) ==
    {k \in 1..Len(url) : TokenExt(url[k]) # ""
                           /\ (k = Len(url) \/ url[k + 1] \in Queries)}

\* ImageDownloader.get_image_extension (lines 50-70)
get_image_extension(url, content_type) ==
    IF content_type # "" /\ content_type \in DOMAIN TypeMap
    THEN TypeMap[content_type]
    ELSE IF UrlExtMatches(url) # {}
         THEN TokenExt(url[CHOOSE k \in UrlExtMatches(url) :
                               \A j \in UrlExtMatches(url) : k <= j])
         ELSE ".jpg"

\* What happens to one request: an answer with a Content-Type, or one of the
\* exceptions download_image catches (lines 96-98).
Answers == [ok : {TRUE}, content_type : ContentTypes]
Failures == [ok : {FALSE}, error : {"URLError", "timeout", "HTTP Error 404"}]
Outcomes == Answers \cup Failures

\* url_mapping[key] = value on a dict kept as its items in insertion order
DictSet(items, key, value) ==
    IF \E k \in 1..Len(items) : items[k].url = key
    THEN [k \in 1..Len(items) |->
            IF items[k].url = key THEN [url |-> key, dest |-> value]
                                  ELSE items[k]]
    ELSE Append(items, [url |-> key, dest |-> value])

DictHas(items, key) == \E k \in 1..Len(items) : items[k].url = key

DictGet(items, key) ==
    items[CHOOSE k \in 1..Len(items) : items[k].url = key].dest

\* the failure leaves no entry
RecordFailure_NoEntry(url_mapping, url) == url_mapping

\* lines 125-126: a failed download maps the URL to itself
RecordFailure(url_mapping, url) == DictSet(url_mapping, url, url)

\* lines 120-123: a download maps the URL to 'images/<final_path.name>'
RecordSuccess(url_mapping, url, i, ext) ==
    DictSet(url_mapping, url, LocalPath(i, ext))

\* the frame of one call of download_images: its argument, the number of
\* turns of the loop done, url_mapping, and the requests sent so far together
\* with the Referer each carried and what became of it
DlStart(image_urls) ==
    [image_urls |-> image_urls, i |-> 0, url_mapping |-> <<>>, requests |-> <<>>]

\* a URL whose download failed is asked for again
DlStep_Retry(f, outcome, sent_referer) ==
    [f EXCEPT
       !.i = IF outcome.ok THEN f.i + 1 ELSE f.i,
       !.requests = Append(@, [url |-> f.image_urls[f.i + 1],
                               referer |-> sent_referer, outcome |-> outcome]),
       !.url_mapping =
           IF outcome.ok
           THEN RecordSuccess(@, f.image_urls[f.i + 1], f.i + 1,
                              get_image_extension(f.image_urls[f.i + 1],
                                                  outcome.content_type))
           ELSE RecordFailure(@, f.image_urls[f.i + 1])]

\* lines 111-128: one turn of the loop, download_image (lines 72-98) included
DlStep(f, outcome, sent_referer) ==
    LET i == f.i + 1
        url == f.image_urls[i]
    IN  [f EXCEPT
           !.i = i,
           !.requests = Append(@, [url |-> url, referer |-> sent_referer,
                                   outcome |-> outcome]),
           !.url_mapping =
               IF outcome.ok
               THEN RecordSuccess(@, url, i,
                                  get_image_extension(url, outcome.content_type))
               ELSE RecordFailure(@, url)]

DlInit ==
    /\ dl_frame \in {DlStart(urls) : urls \in DistinctSeqsUpTo(ImageUrls, MaxImages)}
    /\ dl_pc = "call"
    /\ dl_result = None

DlIdle ==
    /\ dl_frame = DlStart(<<>>)
    /\ dl_pc = "idle"
    /\ dl_result = None

\* the Referer of a downloader nobody has fetched an article with (line 43)
DefaultReferer == "https://www.google.com/"

\* lines 102-109: an empty list returns {} at once; the images directory is
\* created, which can raise
DownloadImages ==
    /\ dl_pc = "call"
    /\ \/ /\ dl_frame.image_urls = <<>>
          /\ dl_pc' = "ret"
          /\ dl_result' = Some(<<>>)
       \/ /\ dl_frame.image_urls # <<>>
          /\ dl_pc' = "loop"
          /\ UNCHANGED dl_result
       \/ /\ dl_frame.image_urls # <<>>
          /\ dl_pc' = "raised"
          /\ UNCHANGED dl_result
    /\ UNCHANGED dl_frame
    /\ UNCHANGED dlOthers

\* lines 111-128
DownloadImage ==
    /\ dl_pc = "loop"
    /\ dl_frame.i < Len(dl_frame.image_urls)
    /\ \E outcome \in Outcomes :
          dl_frame' = DlStep(dl_frame, outcome, DefaultReferer)
    /\ UNCHANGED <<dl_pc, dl_result>>
    /\ UNCHANGED dlOthers

\* line 130
DownloadImagesReturn ==
    /\ dl_pc = "loop"
    /\ dl_frame.i = Len(dl_frame.image_urls)
    /\ dl_pc' = "ret"
    /\ dl_result' = Some(dl_frame.url_mapping)
    /\ UNCHANGED dl_frame
    /\ UNCHANGED dlOthers

DlNext == DownloadImages \/ DownloadImage \/ DownloadImagesReturn

\* C1: for a non-empty list, download_images returns a mapping with exactly
\* one entry for every URL of the list: 'images/<name><ext>' when the
\* download of that URL succeeded, the URL itself when it failed; every URL
\* of the list was requested, in list order, whatever became of the others.
C1_OneEntryPerUrl ==
    (dl_pc = "ret" /\ dl_frame.image_urls # <<>>) =>
        LET urls == dl_frame.image_urls
            reqs == dl_frame.requests
            m == dl_result.val
        IN  /\ Len(reqs) = Len(urls)
            /\ Len(m) = Len(urls)
            /\ \A i \in 1..Len(urls) :
                  /\ reqs[i].url = urls[i]
                  /\ Cardinality({k \in 1..Len(m) : m[k].url = urls[i]}) = 1
                  /\ reqs[i].outcome.ok =>
                        /\ IsLocalPath(DictGet(m, urls[i]))
                        /\ DictGet(m, urls[i])[2] = NumStr(i)
                        /\ DictGet(m, urls[i])[3] \in {".gif", ".png", ".jpg"}
                  /\ ~reqs[i].outcome.ok => DictGet(m, urls[i]) = urls[i]

\* a failed download followed by a successful one
C1_Witness ==
    /\ dl_pc = "ret"
    /\ Len(dl_frame.image_urls) = 2
    /\ ~dl_frame.requests[1].outcome.ok
    /\ dl_frame.requests[2].outcome.ok
    /\ DictGet(dl_result.val, dl_frame.image_urls[2]) = LocalPath(2, ".gif")

\* C25: download_images sends exactly one request for every URL of its
\* list, in list order; when a request is sent the outcome of every earlier
\* URL is in url_mapping; no URL is asked for a second time, failed or not.
C25_OneRequestPerUrlInOrder ==
    LET urls == dl_frame.image_urls
        reqs == dl_frame.requests
    IN  /\ Len(reqs) = dl_frame.i
        /\ Len(reqs) <= Len(urls)
        /\ \A k \in 1..Len(reqs) :
              /\ reqs[k].url = urls[k]
              /\ DictHas(dl_frame.url_mapping, urls[k])
              /\ \A j \in 1..Len(reqs) : reqs[j].url = reqs[k].url => j = k
        /\ \A k \in (Len(reqs) + 1)..Len(urls) :
              ~DictHas(dl_frame.url_mapping, urls[k])
        /\ dl_pc = "ret" => Len(reqs) = Len(urls)

\* two URLs, both failed, each asked for once
C25_Witness ==
    /\ dl_pc = "ret"
    /\ Len(dl_frame.image_urls) = 2
    /\ Len(dl_frame.requests) = 2
    /\ ~dl_frame.requests[1].outcome.ok
    /\ ~dl_frame.requests[2].outcome.ok

-----------------------------------------------------------------------------
(* ArticleFetcherGUI: the single-article tab and the batch tab.  The worker *)
(* threads and the Tk event loop are the processes; root.after(0, f) puts f *)
(* on the queue `events`, which the event loop serves in order.  The two    *)
(* tabs share no attribute of the window (the batch worker builds its own   *)
(* fetcher and converter for every article); `tab` is the tab the user      *)
(* works in during a run.                                                   *)

ArticleUrls2 == {"https://s/1", "https://s/2"}

\* the images of the page behind an article URL, as _extract_image_urls
\* returns them (duplicate-free)
SiteImages(url) ==
    IF url = "https://s/1"
    THEN << <<"https://h1", "/a.png">>, <<"https://h2", "/b">> >>
    ELSE << >>

\* the Markdown and the styled HTML of an article: a heading, then its images
MarkdownOf(image_urls) ==
    <<"# ", "t", "\n">>
      \o Join([k \in 1..Len(image_urls) |-> <<"![](">> \o image_urls[k] \o <<")">>],
              <<"\n">>)

StyledHtmlOf(image_urls) ==
    <<"<h1>", "t", "</h1>">>
      \o Join([k \in 1..Len(image_urls) |->
                 <<"<img src=\"">> \o image_urls[k] \o <<"\">">>], <<"\n">>)

\* the dict fetch_article returns (lines 797-806) for a page that was fetched
Article(url) ==
    [url |-> url,
     title |-> "t",
     filename |-> "t",
     image_urls |-> SiteImages(url),
     content |-> MarkdownOf(SiteImages(url)),
     html_content |-> StyledHtmlOf(SiteImages(url))]

Formats == {"md", "html", "epub"}

\* lines 1647 and 1862
NeedDownload(download_images, save_format) ==
    download_images \/ save_format = "epub"

\* GeneralArticleFetcher.replace_image_urls (lines 1313-1329), the whole loop
RECURSIVE replace_image_urls(_, _)
replace_image_urls(content, items) ==
    IF items = <<>> THEN content
    ELSE replace_image_urls(ReplaceOneUrl(content, items[1].url, items[1].dest),
                            Tail(items))

\* what one article's save works on: the fetched article, the format, the
\* download_images call, url_mapping, and the text after the rewrite
Job(result, save_format, download_images) ==
    [result |-> result,
     save_format |-> save_format,
     need_download |-> NeedDownload(download_images, save_format),
     dl |-> DlStart(result.image_urls),
     url_mapping |-> <<>>,
     content |-> <<>>]

NoJob ==
    [result |-> Article("https://s/2"), save_format |-> "md",
     need_download |-> FALSE, dl |-> DlStart(<<>>), url_mapping |-> <<>>,
     content |-> <<>>]

\* the rewrite follows at once, whatever is to be downloaded
PcAfterBegin_NoWait(job) == "rewrite"

\* lines 1648-1655 and 1863-1867: download_images is called for an article
\* that has images when images are wanted; otherwise url_mapping stays {}
PcAfterBegin(job) ==
    IF job.need_download /\ job.result.image_urls # <<>>
    THEN "download" ELSE "rewrite"

\* one turn of the loop of download_images inside a job
JobDownload(job, outcome, sent_referer) ==
    [job EXCEPT !.dl = DlStep(@, outcome, sent_referer)]

\* download_images returns: url_mapping = ...
JobDownloaded(job) == [job EXCEPT !.url_mapping = job.dl.url_mapping]

\* lines 1660-1661, 1666-1667, 1692-1693 (1878-1879, 1883-1884, 1905-1906)
JobRewrite(job) ==
    [job EXCEPT !.content =
        replace_image_urls(IF job.save_format = "html"
                           THEN job.result.html_content
                           ELSE job.result.content,
                           job.url_mapping)]

\* filepath: <directory>/<base_filename>.<format>
FilePath(job) == <<job.result.filename, ".", job.save_format>>

\* a file written at `path`, replacing what was there
FileWrite(fs, path, job) ==
    {f \in fs : f.path # path}
       \cup {[path |-> path, url |-> job.result.url]}

\* sum(1 for v in url_mapping.values() if v.startswith('images/'))
Downloaded(items) ==
    Cardinality({k \in 1..Len(items) : items[k].dest[1] = "images/"})

\* what the pipeline's servers do to one image request
AppOutcomes ==
    {[ok |-> TRUE, content_type |-> "image/gif"], [ok |-> FALSE, error |-> "timeout"]}

Event(handler, arg) == [handler |-> handler, arg |-> arg]

FetchThreads == 1..MaxFetchThreads
SaveThreads == 1..MaxSaveThreads

IdleFetch == [pc |-> "idle", url |-> "https://s/1"]
IdleSave == [pc |-> "idle", job |-> NoJob]

\* the user acts on the window: a button, or <Return> in the URL entry
Click == clicks < MaxClicks /\ clicks' = clicks + 1

Post(handler, arg) == events' = Append(events, Event(handler, arg))

singleGui == <<fetch_btn, save_btn, current_result, status>>
batchVars == <<batch_running, batch_start_btn, batch_stop_btn, batch_urls,
               batch_index, batch_success, batch_failed, batch_total_images,
               batch_log, bw>>

\* ArticleFetcherGUI.fetch_article (lines 1566-1583), from the button or from
\* <Return> in the URL entry (line 1385)
FetchArticle ==
    /\ tab = "single"
    /\ Click
    /\ \E t \in FetchThreads, url \in ArticleUrls2 :
          /\ ft[t].pc = "idle"
          /\ ft' = [ft EXCEPT ![t] = [pc |-> "fetch", url |-> url]]
    /\ fetch_btn' = "disabled"
    /\ UNCHANGED <<tab, save_btn, current_result, status, referer, st, events, files>>
    /\ UNCHANGED batchVars
    /\ UNCHANGED appOthers

\* _fetch_thread (lines 1585-1590) up to the answer of the server:
\* _fetch_html returns None, the request cannot be built and raises, or the
\* page arrives and fetch_article sets the Referer of the shared downloader
\* (line 770)
FetchThreadRequest ==
    /\ \E t \in FetchThreads :
          /\ ft[t].pc = "fetch"
          /\ \/ /\ Post("_fetch_complete", None)
                /\ ft' = [ft EXCEPT ![t] = IdleFetch]
                /\ UNCHANGED referer
             \/ /\ Post("_fetch_error", "unknown url type")
                /\ ft' = [ft EXCEPT ![t] = IdleFetch]
                /\ UNCHANGED referer
             \/ /\ referer' = ft[t].url
                /\ ft' = [ft EXCEPT ![t].pc = "parse"]
                /\ UNCHANGED events
    /\ UNCHANGED <<tab, clicks, singleGui, st, files>>
    /\ UNCHANGED batchVars
    /\ UNCHANGED appOthers

\* _fetch_thread: fetch_article returns the article (lines 772-806, 1588)
FetchThreadReturn ==
    /\ \E t \in FetchThreads :
          /\ ft[t].pc = "parse"
          /\ Post("_fetch_complete", Some(Article(ft[t].url)))
          /\ ft' = [ft EXCEPT ![t] = IdleFetch]
    /\ UNCHANGED <<tab, clicks, singleGui, referer, st, files>>
    /\ UNCHANGED batchVars
    /\ UNCHANGED appOthers

\* _fetch_complete (lines 1592-1617)
FetchComplete ==
    /\ events # <<>>
    /\ Head(events).handler = "_fetch_complete"
    /\ events' = Tail(events)
    /\ fetch_btn' = "normal"
    /\ IF ~Head(events).arg.isNone
       THEN /\ current_result' = Head(events).arg
            /\ save_btn' = "normal"
            /\ status' = "fetched"
       ELSE /\ status' = "fetch failed"
            /\ UNCHANGED <<current_result, save_btn>>
    /\ UNCHANGED <<tab, clicks, referer, ft, st, files>>
    /\ UNCHANGED batchVars
    /\ UNCHANGED appOthers

\* _fetch_error (lines 1619-1623), called by the lambda of line 1590 while
\* the `e` it refers to is still bound, that is, before the worker has left
\* its except block
FetchError ==
    /\ events # <<>>
    /\ Head(events).handler = "_fetch_error"
    /\ events' = Tail(events)
    /\ fetch_btn' = "normal"
    /\ status' = "error"
    /\ UNCHANGED <<tab, clicks, save_btn, current_result, referer, ft, st, files>>
    /\ UNCHANGED batchVars
    /\ UNCHANGED appOthers

\* the lambda of line 1590 run after the worker has left its except block:
\* `e` is unbound, str(e) raises NameError inside the Tk callback, and
\* _fetch_error is not called
FetchErrorCallbackRaises ==
    /\ events # <<>>
    /\ Head(events).handler = "_fetch_error"
    /\ events' = Tail(events)
    /\ UNCHANGED <<tab, clicks, singleGui, referer, ft, st, files>>
    /\ UNCHANGED batchVars
    /\ UNCHANGED appOthers

\* clear_all (lines 1734-1740)
ClearAll ==
    /\ tab = "single"
    /\ Click
    /\ current_result' = None
    /\ save_btn' = "disabled"
    /\ status' = "ready"
    /\ UNCHANGED <<tab, fetch_btn, referer, ft, st, events, files>>
    /\ UNCHANGED batchVars
    /\ UNCHANGED appOthers

\* save_article (lines 1625-1634)
SaveArticle ==
    /\ tab = "single"
    /\ save_btn = "normal"
    /\ Click
    /\ IF current_result.isNone
       THEN UNCHANGED <<save_btn, st>>
       ELSE /\ save_btn' = "disabled"
            /\ \E t \in SaveThreads :
                  /\ st[t].pc = "idle"
                  /\ st' = [st EXCEPT ![t].pc = "begin"]
    /\ UNCHANGED <<tab, fetch_btn, current_result, status, referer, ft, events, files>>
    /\ UNCHANGED batchVars
    /\ UNCHANGED appOthers

\* _save_thread, lines 1638-1655: the thread reads current_result and the
\* format widgets; a cleared current_result makes result['filename'] raise;
\* download_images raises when the images directory cannot be made
SaveThreadBegin ==
    /\ \E t \in SaveThreads :
          /\ st[t].pc = "begin"
          /\ \/ /\ current_result.isNone
                /\ Post("_save_error", "'NoneType' object is not subscriptable")
                /\ st' = [st EXCEPT ![t] = IdleSave]
             \/ /\ ~current_result.isNone
                /\ \E save_format \in Formats, download_images \in BOOLEAN :
                     LET job == Job(current_result.val, save_format, download_images)
                     IN  \/ /\ st' = [st EXCEPT ![t] = [pc |-> PcAfterBegin(job),
                                                        job |-> job]]
                            /\ UNCHANGED events
                         \/ /\ PcAfterBegin(job) = "download"
                            /\ Post("_save_error", "[Errno 13] Permission denied")
                            /\ st' = [st EXCEPT ![t] = IdleSave]
    /\ UNCHANGED <<tab, clicks, singleGui, referer, ft, files>>
    /\ UNCHANGED batchVars
    /\ UNCHANGED appOthers

\* download_images inside _save_thread: one turn of its loop; download_image
\* copies the headers of the shared downloader (line 76)
SaveThreadDownloadImage ==
    /\ \E t \in SaveThreads :
          /\ st[t].pc = "download"
          /\ st[t].job.dl.i < Len(st[t].job.dl.image_urls)
          /\ \E outcome \in AppOutcomes :
                st' = [st EXCEPT ![t].job = JobDownload(@, outcome, referer)]
    /\ UNCHANGED <<tab, clicks, singleGui, referer, ft, events, files>>
    /\ UNCHANGED batchVars
    /\ UNCHANGED appOthers

\* download_images returns (line 130); url_mapping is bound (line 1651)
SaveThreadDownloaded ==
    /\ \E t \in SaveThreads :
          /\ st[t].pc = "download"
          /\ st[t].job.dl.i = Len(st[t].job.dl.image_urls)
          /\ st' = [st EXCEPT ![t] = [pc |-> "rewrite", job |-> JobDownloaded(@.job)]]
    /\ UNCHANGED <<tab, clicks, singleGui, referer, ft, events, files>>
    /\ UNCHANGED batchVars
    /\ UNCHANGED appOthers

\* the call of replace_image_urls (lines 1661, 1667, 1693)
SaveThreadRewrite ==
    /\ \E t \in SaveThreads :
          /\ st[t].pc = "rewrite"
          /\ st' = [st EXCEPT ![t] = [pc |-> "write", job |-> JobRewrite(@.job)]]
    /\ UNCHANGED <<tab, clicks, singleGui, referer, ft, events, files>>
    /\ UNCHANGED batchVars
    /\ UNCHANGED appOthers

\* lines 1662, 1679-1689, 1694-1702: the file is written, or packaged by
\* convert_to_epub, and the outcome posted; a failed write, and a conversion
\* that reports failure, end in _save_error
SaveThreadWrite ==
    /\ \E t \in SaveThreads :
          /\ st[t].pc = "write"
          /\ LET job == st[t].job IN
             \/ /\ files' = FileWrite(files, FilePath(job), job)
                /\ Post("_save_complete",
                        [filepath |-> FilePath(job),
                         downloaded |-> Downloaded(job.url_mapping),
                         failed |-> Len(job.result.image_urls)
                                      - Downloaded(job.url_mapping)])
             \/ /\ \E e \in OsErrors : Post("_save_error", e)
                /\ UNCHANGED files
          /\ st' = [st EXCEPT ![t] = IdleSave]
    /\ UNCHANGED <<tab, clicks, singleGui, referer, ft>>
    /\ UNCHANGED batchVars
    /\ UNCHANGED appOthers

\* _save_complete (lines 1707-1726); reading an EPUB back as UTF-8 text for
\* the preview raises, which ends the handler before the status is set
SaveComplete ==
    /\ events # <<>>
    /\ Head(events).handler = "_save_complete"
    /\ events' = Tail(events)
    /\ save_btn' = "normal"
    /\ status' = IF ~current_result.isNone /\ Head(events).arg.filepath[3] = "epub"
                 THEN status ELSE "saved"
    /\ UNCHANGED <<tab, clicks, fetch_btn, current_result, referer, ft, st, files>>
    /\ UNCHANGED batchVars
    /\ UNCHANGED appOthers

\* _save_error (lines 1728-1732), called by the lambda of line 1702 while
\* the `e` it refers to is still bound
SaveError ==
    /\ events # <<>>
    /\ Head(events).handler = "_save_error"
    /\ events' = Tail(events)
    /\ save_btn' = "normal"
    /\ status' = "error"
    /\ UNCHANGED <<tab, clicks, fetch_btn, current_result, referer, ft, st, files>>
    /\ UNCHANGED batchVars
    /\ UNCHANGED appOthers

\* the lambda of line 1702 run after the worker has left its except block:
\* str(e) raises NameError inside the Tk callback, _save_error is not called
SaveErrorCallbackRaises ==
    /\ events # <<>>
    /\ Head(events).handler = "_save_error"
    /\ events' = Tail(events)
    /\ UNCHANGED <<tab, clicks, singleGui, referer, ft, st, files>>
    /\ UNCHANGED batchVars
    /\ UNCHANGED appOthers

IdleWorker ==
    [pc |-> "idle", i |-> 0, save_format |-> "md", download_images |-> FALSE,
     job |-> NoJob]

LogLine(line, url) == [line |-> line, url |-> url]

\* start_batch_download (lines 1771-1823), the list holding at least one URL
\* and the user confirming
StartBatchDownload ==
    /\ tab = "batch"
    /\ batch_start_btn = "normal"
    /\ Click
    /\ \E urls \in SeqsUpTo(ArticleUrls2, MaxBatch) :
          /\ urls # <<>>
          /\ batch_urls' = urls
    /\ batch_running' = TRUE
    /\ batch_start_btn' = "disabled"
    /\ batch_stop_btn' = "normal"
    /\ batch_log' = <<>>
    /\ batch_index' = 0
    /\ batch_success' = 0
    /\ batch_failed' = 0
    /\ batch_total_images' = 0
    /\ bw' = [IdleWorker EXCEPT !.pc = "begin"]
    /\ UNCHANGED <<tab, singleGui, referer, ft, st, events, files>>
    /\ UNCHANGED appOthers

\* stop_batch_download (lines 1825-1828)
StopBatchDownload ==
    /\ tab = "batch"
    /\ batch_stop_btn = "normal"
    /\ Click
    /\ batch_running' = FALSE
    /\ UNCHANGED <<batch_start_btn, batch_stop_btn, batch_urls, batch_index,
                   batch_success, batch_failed, batch_total_images, batch_log, bw>>
    /\ UNCHANGED <<tab, singleGui, referer, ft, st, events, files>>
    /\ UNCHANGED appOthers

\* _batch_download_thread, lines 1832-1833: the format widgets are read
BatchThreadBegin ==
    /\ bw.pc = "begin"
    /\ \E save_format \in Formats, download_images \in BOOLEAN :
          bw' = [bw EXCEPT !.pc = "head", !.save_format = save_format,
                           !.download_images = download_images]
    /\ UNCHANGED <<batch_running, batch_start_btn, batch_stop_btn, batch_urls,
                   batch_index, batch_success, batch_failed, batch_total_images,
                   batch_log>>
    /\ UNCHANGED <<tab, clicks, singleGui, referer, ft, st, events, files>>
    /\ UNCHANGED appOthers

\* the stop flag is never looked at
StopRequested_Never(running) == FALSE

\* the test of the stop flag at the head of an iteration (line 1836)
StopRequested(running) == ~running

\* lines 1835-1843: the head of the loop
BatchLoopHead ==
    /\ bw.pc = "head"
    /\ IF bw.i = Len(batch_urls)
       THEN /\ bw' = [bw EXCEPT !.pc = "post"]
            /\ UNCHANGED <<batch_index, batch_log>>
       ELSE IF StopRequested(batch_running)
       THEN /\ bw' = [bw EXCEPT !.pc = "post"]
            /\ batch_log' = Append(batch_log, LogLine("stopped", ""))
            /\ UNCHANGED batch_index
       ELSE /\ bw' = [bw EXCEPT !.pc = "fetch"]
            /\ batch_index' = bw.i + 1
            /\ batch_log' = Append(batch_log, LogLine("fetching", batch_urls[bw.i + 1]))
    /\ UNCHANGED <<batch_running, batch_start_btn, batch_stop_btn, batch_urls,
                   batch_success, batch_failed, batch_total_images>>
    /\ UNCHANGED <<tab, clicks, singleGui, referer, ft, st, events, files>>
    /\ UNCHANGED appOthers

\* the loop is left at the first failure
PcAfterFailure_Break == "post"

\* where the loop goes on after an article that failed: `continue` at line
\* 1853, the end of the `except` at line 1914
PcAfterFailure == "head"

\* lines 1852 and 1914
CountFailure(n) == n + 1

\* the article is given up: counted as failed, the loop moves on
BatchArticleFailed(line) ==
    /\ batch_failed' = CountFailure(batch_failed)
    /\ batch_log' = Append(batch_log, LogLine(line, ""))
    /\ bw' = [bw EXCEPT !.pc = PcAfterFailure, !.i = @ + 1, !.job = NoJob]

\* lines 1845-1867: a fetcher of its own fetches the article; no result, an
\* exception, or an images directory that cannot be made, fail the article
BatchFetch ==
    /\ bw.pc = "fetch"
    /\ LET job == Job(Article(batch_urls[bw.i + 1]), bw.save_format,
                      bw.download_images)
       IN  \/ BatchArticleFailed("fetch failed")
           \/ BatchArticleFailed("error")
           \/ /\ bw' = [bw EXCEPT !.pc = PcAfterBegin(job), !.job = job]
              /\ batch_log' = Append(batch_log, LogLine("title", ""))
              /\ UNCHANGED batch_failed
    /\ UNCHANGED <<batch_running, batch_start_btn, batch_stop_btn, batch_urls,
                   batch_index, batch_success, batch_total_images>>
    /\ UNCHANGED <<tab, clicks, singleGui, referer, ft, st, events, files>>
    /\ UNCHANGED appOthers

\* download_images inside the worker: one turn of its loop, with the Referer
\* the article's own fetcher has set
BatchDownloadImage ==
    /\ bw.pc = "download"
    /\ bw.job.dl.i < Len(bw.job.dl.image_urls)
    /\ \E outcome \in AppOutcomes :
          bw' = [bw EXCEPT !.job = JobDownload(@, outcome, bw.job.result.url)]
    /\ UNCHANGED <<batch_running, batch_start_btn, batch_stop_btn, batch_urls,
                   batch_index, batch_success, batch_failed, batch_total_images,
                   batch_log>>
    /\ UNCHANGED <<tab, clicks, singleGui, referer, ft, st, events, files>>
    /\ UNCHANGED appOthers

\* lines 1867-1872: download_images returns, the downloads are counted
BatchDownloaded ==
    /\ bw.pc = "download"
    /\ bw.job.dl.i = Len(bw.job.dl.image_urls)
    /\ bw' = [bw EXCEPT !.pc = "rewrite", !.job = JobDownloaded(@)]
    /\ batch_total_images' = batch_total_images + Downloaded(bw.job.dl.url_mapping)
    /\ batch_log' = Append(batch_log, LogLine("images", ""))
    /\ UNCHANGED <<batch_running, batch_start_btn, batch_stop_btn, batch_urls,
                   batch_index, batch_success, batch_failed>>
    /\ UNCHANGED <<tab, clicks, singleGui, referer, ft, st, events, files>>
    /\ UNCHANGED appOthers

\* the call of replace_image_urls (lines 1879, 1884, 1906)
BatchRewrite ==
    /\ bw.pc = "rewrite"
    /\ bw' = [bw EXCEPT !.pc = "write", !.job = JobRewrite(@)]
    /\ UNCHANGED <<batch_running, batch_start_btn, batch_stop_btn, batch_urls,
                   batch_index, batch_success, batch_failed, batch_total_images,
                   batch_log>>
    /\ UNCHANGED <<tab, clicks, singleGui, referer, ft, st, events, files>>
    /\ UNCHANGED appOthers

\* lines 1880, 1892-1902, 1907-1914: the file is written or packaged and the
\* article counted; a failed write or conversion fails the article
BatchWrite ==
    /\ bw.pc = "write"
    /\ \/ /\ files' = FileWrite(files, FilePath(bw.job), bw.job)
          /\ batch_success' = batch_success + 1
          /\ batch_log' = Append(batch_log, LogLine("saved", ""))
          /\ bw' = [bw EXCEPT !.pc = "head", !.i = @ + 1, !.job = NoJob]
          /\ UNCHANGED batch_failed
       \/ /\ BatchArticleFailed("error")
          /\ UNCHANGED <<files, batch_success>>
    /\ UNCHANGED <<batch_running, batch_start_btn, batch_stop_btn, batch_urls,
                   batch_index, batch_total_images>>
    /\ UNCHANGED <<tab, clicks, singleGui, referer, ft, st, events>>
    /\ UNCHANGED appOthers

\* line 1920
BatchPostComplete ==
    /\ bw.pc = "post"
    /\ Post("_batch_download_complete", None)
    /\ bw' = [bw EXCEPT !.pc = "exited"]
    /\ UNCHANGED <<batch_running, batch_start_btn, batch_stop_btn, batch_urls,
                   batch_index, batch_success, batch_failed, batch_total_images,
                   batch_log>>
    /\ UNCHANGED <<tab, clicks, singleGui, referer, ft, st, files>>
    /\ UNCHANGED appOthers

\* _batch_download_complete (lines 1927-1946)
BatchDownloadComplete ==
    /\ events # <<>>
    /\ Head(events).handler = "_batch_download_complete"
    /\ events' = Tail(events)
    /\ batch_running' = FALSE
    /\ batch_start_btn' = "normal"
    /\ batch_stop_btn' = "disabled"
    /\ status' = "batch complete"
    /\ UNCHANGED <<batch_urls, batch_index, batch_success, batch_failed,
                   batch_total_images, batch_log, bw>>
    /\ UNCHANGED <<tab, clicks, fetch_btn, save_btn, current_result, referer, ft, st, files>>
    /\ UNCHANGED appOthers

AppInit ==
    /\ tab \in {"single", "batch"}
    /\ clicks = 0
    /\ fetch_btn = "normal"
    /\ save_btn = "disabled"
    /\ current_result = None
    /\ status = "ready"
    /\ referer = DefaultReferer
    /\ ft = [t \in FetchThreads |-> IdleFetch]
    /\ st = [t \in SaveThreads |-> IdleSave]
    /\ events = <<>>
    /\ files = {}
    /\ batch_running = FALSE
    /\ batch_start_btn = "normal"
    /\ batch_stop_btn = "disabled"
    /\ batch_urls = <<>>
    /\ batch_index = 0
    /\ batch_success = 0
    /\ batch_failed = 0
    /\ batch_total_images = 0
    /\ batch_log = <<>>
    /\ bw = IdleWorker

AppIdle ==
    /\ tab = "none"
    /\ clicks = 0
    /\ fetch_btn = "normal"
    /\ save_btn = "disabled"
    /\ current_result = None
    /\ status = "ready"
    /\ referer = DefaultReferer
    /\ ft = [t \in FetchThreads |-> IdleFetch]
    /\ st = [t \in SaveThreads |-> IdleSave]
    /\ events = <<>>
    /\ files = {}
    /\ batch_running = FALSE
    /\ batch_start_btn = "normal"
    /\ batch_stop_btn = "disabled"
    /\ batch_urls = <<>>
    /\ batch_index = 0
    /\ batch_success = 0
    /\ batch_failed = 0
    /\ batch_total_images = 0
    /\ batch_log = <<>>
    /\ bw = IdleWorker

AppNext ==
    \/ FetchArticle
    \/ FetchThreadRequest
    \/ FetchThreadReturn
    \/ FetchComplete
    \/ FetchError
    \/ FetchErrorCallbackRaises
    \/ ClearAll
    \/ SaveArticle
    \/ SaveThreadBegin
    \/ SaveThreadDownloadImage
    \/ SaveThreadDownloaded
    \/ SaveThreadRewrite
    \/ SaveThreadWrite
    \/ SaveComplete
    \/ SaveError
    \/ SaveErrorCallbackRaises
    \/ StartBatchDownload
    \/ StopBatchDownload
    \/ BatchThreadBegin
    \/ BatchLoopHead
    \/ BatchFetch
    \/ BatchDownloadImage
    \/ BatchDownloaded
    \/ BatchRewrite
    \/ BatchWrite
    \/ BatchPostComplete
    \/ BatchDownloadComplete

IsFetchingLine(l) == l.line = "fetching"

IsOutcomeLine(l) == l.line \in {"fetch failed", "error", "saved"}

\* the worker has left its loop and no stop was asked for: batch_running is
\* cleared only by stop_batch_download and by _batch_download_complete
BatchEndedUnstopped == bw.pc = "exited" /\ batch_running

\* C4: in a batch run that is not stopped, the worker takes up every URL of
\* the list exactly once, in list order, whatever became of the others, every
\* article ends counted, and batch_success + batch_failed is the number of
\* URLs.
C4_UnstoppedBatchProcessesEveryUrl ==
    BatchEndedUnstopped =>
        LET taken == SelectSeq(batch_log, IsFetchingLine) IN
        /\ Len(taken) = Len(batch_urls)
        /\ \A k \in 1..Len(taken) : taken[k].url = batch_urls[k]
        /\ Len(SelectSeq(batch_log, IsOutcomeLine)) = Len(batch_urls)
        /\ batch_index = Len(batch_urls)
        /\ batch_success + batch_failed = Len(batch_urls)

\* two articles, the first failed at its fetch, the second saved
C4_Witness ==
    /\ BatchEndedUnstopped
    /\ Len(batch_urls) = 2
    /\ batch_log[2].line = "fetch failed"
    /\ batch_failed = 1
    /\ batch_success = 1

\* download_images has returned a mapping that holds every image URL of the
\* article, when the save is one that downloads images
DownloadsComplete(job) ==
    (job.need_download /\ job.result.image_urls # <<>>) =>
        /\ job.dl.i = Len(job.result.image_urls)
        /\ Len(job.dl.requests) = Len(job.result.image_urls)
        /\ \A k \in 1..Len(job.result.image_urls) :
              DictHas(job.url_mapping, job.result.image_urls[k])

\* C5: whenever replace_image_urls runs in an article's save, in the save
\* thread of the single tab as in the batch worker and for every format, all
\* image downloads of that save have finished and its url_mapping is
\* complete.
C5_RewriteAfterDownloads ==
    [][ /\ \A t \in SaveThreads :
              (st[t].pc # "write" /\ st'[t].pc = "write")
                  => DownloadsComplete(st[t].job)
        /\ (bw.pc # "write" /\ bw'.pc = "write") => DownloadsComplete(bw.job)
      ]_vars

\* an EPUB save of the single tab after its rewrite, both images requested
C5_Witness ==
    \E t \in SaveThreads :
        /\ st[t].pc = "write"
        /\ st[t].job.save_format = "epub"
        /\ Len(st[t].job.dl.requests) = 2
        /\ Len(st[t].job.url_mapping) = 2
        /\ Contains(st[t].job.content, LocalPath(2, ".gif"))

\* an event of `handler` is taken from the queue in this step
Served(handler) ==
    /\ events # <<>>
    /\ Head(events).handler = handler
    /\ events' = Tail(events)

\* C16: every save that is started ends in exactly one of the two handlers:
\* a save thread that ends has handed one of _save_complete and _save_error
\* to the event loop; when the outcome is an error, _save_error runs, the
\* error is shown and the save control is enabled again; when it is a
\* success, _save_complete runs and enables the save control.
C16_SaveEndsInOneHandler ==
    [][ /\ \A t \in SaveThreads :
              (st[t].pc # "idle" /\ st'[t].pc = "idle") =>
                  /\ Len(events') = Len(events) + 1
                  /\ events'[Len(events')].handler
                         \in {"_save_complete", "_save_error"}
        /\ Served("_save_error") => (save_btn' = "normal" /\ status' = "error")
        /\ Served("_save_complete") => save_btn' = "normal"
      ]_vars

\* every image request of a job carried the URL of the job's article as
\* its Referer
RefererIsOwnArticle(job) ==
    \A k \in 1..Len(job.dl.requests) :
        job.dl.requests[k].referer = job.result.url

\* C17: while the images of an article are downloaded, every image request
\* carries a Referer equal to that article's URL, also when a fetch of
\* another article runs at the same time on the same fetcher.
C17_RefererIsTheArticleBeingSaved ==
    /\ \A t \in SaveThreads : RefererIsOwnArticle(st[t].job)
    /\ RefererIsOwnArticle(bw.job)

\* the positions of the batch worker inside one article
InArticle == {"fetch", "download", "rewrite", "write"}

CompletionsQueued ==
    Cardinality({k \in 1..Len(events) : events[k].handler = "_batch_download_complete"})

\* what one step may do to a batch: an article in progress is carried to its
\* end, saved or counted as failed, whatever the stop flag says; with the flag
\* cleared no further article is started; a batch is started only when no
\* worker is active; the completion handler is served after the worker's
\* exit, with the counters adding up to the articles started
BatchStepRule ==
    /\ (bw.pc \in InArticle /\ bw' # bw) =>
          \/ /\ bw'.pc \in InArticle
             /\ bw'.i = bw.i
             /\ batch_success' + batch_failed' = batch_success + batch_failed
          \/ /\ bw'.pc = "head"
             /\ bw'.i = bw.i + 1
             /\ batch_success' + batch_failed' = batch_success + batch_failed + 1
    /\ (bw.pc = "head" /\ ~batch_running) => bw'.pc \in {"head", "post"}
    /\ (bw.pc # "begin" /\ bw'.pc = "begin") => bw.pc \in {"idle", "exited"}
    /\ Served("_batch_download_complete") =>
          /\ bw.pc = "exited"
          /\ CompletionsQueued = 1
          /\ batch_success + batch_failed = Len(SelectSeq(batch_log, IsFetchingLine))

\* C18: a stop request takes effect only between iterations. The article in
\* progress is carried to its end, no article after it is started, at most
\* one batch worker is active, the worker that was started exits and its
\* completion handler runs, once, with batch_success + batch_failed equal to
\* the number of articles started.
C18_StopTakesEffectBetweenArticles ==
    /\ [][BatchStepRule]_vars
    /\ [](CompletionsQueued =
             IF bw.pc = "exited" /\ batch_start_btn = "disabled" THEN 1 ELSE 0)
    /\ (bw.pc = "begin") ~> (bw.pc = "exited" /\ batch_start_btn = "normal")

\* the stop came while the first of two articles was in progress: that
\* article was saved, the second never started, the handler has run
C18_Witness ==
    /\ bw.pc = "exited"
    /\ batch_start_btn = "normal"
    /\ Len(batch_urls) = 2
    /\ batch_index = 1
    /\ batch_success = 1
    /\ \E k \in 1..Len(batch_log) : batch_log[k].line = "stopped"

\* the outcome line that closes the article taken up at line k of the log
OutcomeOf(k) ==
    LET later == {j \in (k + 1)..Len(batch_log) : IsOutcomeLine(batch_log[j])}
    IN  IF later = {} THEN "none"
        ELSE batch_log[CHOOSE j \in later : \A i \in later : j <= i].line

\* the articles of this batch run that were counted as successes
SavedInBatch ==
    {batch_log[k].url : k \in {k \in 1..Len(batch_log) :
                                  /\ IsFetchingLine(batch_log[k])
                                  /\ OutcomeOf(k) = "saved"}}

\* C29: when a batch run has ended, every article it counted as a success
\* has its file in the output directory: none was overwritten by a later
\* article of the run.
C29_BatchKeepsEverySavedArticle ==
    bw.pc = "exited" =>
        \A u \in SavedInBatch : \E f \in files : f.url = u

-----------------------------------------------------------------------------
(* WeChatArticleParser of fetch_article.py: the event handlers *)

MaxEvents == 5

\* the texts of the data events, one for each place in the event sequence
Texts == <<"t1", "t2", "t3", "t4", "t5", "t6", "t7", "t8">>

\* attrs_dict.get(name, default)
AttrGet(attrs, name, default) ==
    IF name \in DOMAIN attrs THEN attrs[name] ELSE default

NoAttrs == [n \in {} |-> <<>>]
ClassAttr(c) == [n \in {"class"} |-> <<c>>]

\* s * n
RECURSIVE Times(_, _)
Times(s, n) == IF n <= 0 THEN <<>> ELSE s \o Times(s, n - 1)

\* WeChatArticleParser.__init__
NewParser ==
    [in_content |-> FALSE, in_title |-> FALSE, in_author |-> FALSE,
     content_parts |-> <<>>, title |-> <<>>, author |-> <<>>,
     current_tag |-> None, current_attrs |-> NoAttrs,
     list_depth |-> 0, is_ordered_list |-> FALSE, list_counter |-> 0,
     in_blockquote |-> FALSE, in_strong |-> FALSE, in_em |-> FALSE,
     in_ignore |-> FALSE]

ignore_tags == {"script", "style", "nav", "header", "footer"}

HeadingTags == {"h1", "h2", "h3", "h4", "h5", "h6"}

\* int(tag[1])
HeadingLevel(tag) ==
    CASE tag = "h1" -> 1 [] tag = "h2" -> 2 [] tag = "h3" -> 3
      [] tag = "h4" -> 4 [] tag = "h5" -> 5 [] tag = "h6" -> 6

\* self.content_parts.append(part)
AppendPart(self, part) ==
    [self EXCEPT !.content_parts = Append(@, part)]

\* the alt text of an img tag without one (line 83)
DefaultAlt == <<"picture">>

\* the tokens for one backquote and for a fence of three
Backtick == "backquote"
Fence == "fence"

\* href and not href.startswith('javascript')
IsLinkHref(href) == href # <<>> /\ href[1] # "javascript"

\* handle_starttag, lines 68-139: the markup written for a start tag
\* inside the content area
StartMarkup(self, tag, attrs) ==
    IF tag \in HeadingTags
    THEN AppendPart(self, <<"\n", "\n">> \o Times(<<"#">>, HeadingLevel(tag)) \o <<" ">>)
    ELSE IF tag = "p"
    THEN IF self.in_blockquote
         THEN AppendPart(self, <<"\n", ">", " ">>)
         ELSE AppendPart(self, <<"\n", "\n">>)
    ELSE IF tag = "br" THEN AppendPart(self, <<" ", " ", "\n">>)
    ELSE IF tag = "img"
    THEN LET data_src == AttrGet(attrs, "data-src", <<>>)
             src == IF data_src # <<>> THEN data_src ELSE AttrGet(attrs, "src", <<>>)
             alt == AttrGet(attrs, "alt", DefaultAlt)
         IN  IF src # <<>>
             THEN AppendPart(self, <<"\n", "\n", "![">> \o alt \o <<"](">> \o src
                                       \o <<")", "\n", "\n">>)
             ELSE self
    ELSE IF tag = "a"
    THEN IF IsLinkHref(AttrGet(attrs, "href", <<>>))
         THEN AppendPart(self, <<"[">>) ELSE self
    ELSE IF tag \in {"strong", "b"}
    THEN AppendPart([self EXCEPT !.in_strong = TRUE], <<"**">>)
    ELSE IF tag \in {"em", "i"}
    THEN AppendPart([self EXCEPT !.in_em = TRUE], <<"*">>)
    ELSE IF tag = "blockquote"
    THEN AppendPart([self EXCEPT !.in_blockquote = TRUE], <<"\n", "\n", ">", " ">>)
    ELSE IF tag = "ul"
    THEN AppendPart([self EXCEPT !.is_ordered_list = FALSE,
                                 !.list_depth = @ + 1], <<"\n">>)
    ELSE IF tag = "ol"
    THEN AppendPart([self EXCEPT !.is_ordered_list = TRUE,
                                 !.list_depth = @ + 1,
                                 !.list_counter = 0], <<"\n">>)
    ELSE IF tag = "li"
    THEN LET indent == Times(<<" ", " ">>, self.list_depth - 1)
         IN  IF self.is_ordered_list
             THEN AppendPart([self EXCEPT !.list_counter = @ + 1],
                             <<"\n">> \o indent
                                 \o <<NumStr(self.list_counter + 1), ".", " ">>)
             ELSE AppendPart(self, <<"\n">> \o indent \o <<"-", " ">>)
    ELSE IF tag = "code" THEN AppendPart(self, <<Backtick>>)
    ELSE IF tag = "pre" THEN AppendPart(self, <<"\n", "\n", Fence, "\n">>)
    ELSE IF tag = "hr" THEN AppendPart(self, <<"\n", "\n", "---", "\n", "\n">>)
    ELSE IF tag = "table" THEN AppendPart(self, <<"\n", "\n">>)
    ELSE IF tag = "tr" THEN AppendPart(self, <<"|">>)
    ELSE IF tag \in {"td", "th"} THEN AppendPart(self, <<" ">>)
    ELSE self

\* WeChatArticleParser.handle_starttag
handle_starttag(self, tag, attrs) ==
    LET class_name == AttrGet(attrs, "class", <<>>)
        id_name == AttrGet(attrs, "id", <<>>)
        s1 == [self EXCEPT !.current_tag = Some(tag), !.current_attrs = attrs]
        s2 == IF /\ tag = "div"
                 /\ \/ Contains(class_name, <<"rich_media_content">>)
                    \/ Contains(id_name, <<"js_content">>)
              THEN [s1 EXCEPT !.in_content = TRUE] ELSE s1
        s3 == IF tag = "h1" /\ Contains(class_name, <<"rich_media_title">>)
              THEN [s2 EXCEPT !.in_title = TRUE] ELSE s2
        s4 == IF tag = "a" /\ Contains(class_name, <<"rich_media_meta_link">>)
              THEN [s3 EXCEPT !.in_author = TRUE] ELSE s3
    IN  IF tag \in ignore_tags THEN [s4 EXCEPT !.in_ignore = TRUE]
        ELSE IF s4.in_ignore \/ ~s4.in_content THEN s4
        ELSE StartMarkup(s4, tag, attrs)

\* handle_endtag, lines 156-196: the markup written for an end tag inside
\* the content area
EndMarkup(self, tag) ==
    IF tag \in HeadingTags THEN AppendPart(self, <<"\n">>)
    ELSE IF tag = "p" THEN self
    ELSE IF tag = "a"
    THEN LET href == AttrGet(self.current_attrs, "href", <<>>)
         IN  IF IsLinkHref(href)
             THEN AppendPart(self, <<"](">> \o href \o <<")">>) ELSE self
    ELSE IF tag \in {"strong", "b"}
    THEN AppendPart([self EXCEPT !.in_strong = FALSE], <<"**">>)
    ELSE IF tag \in {"em", "i"}
    THEN AppendPart([self EXCEPT !.in_em = FALSE], <<"*">>)
    ELSE IF tag = "blockquote"
    THEN AppendPart([self EXCEPT !.in_blockquote = FALSE], <<"\n">>)
    ELSE IF tag \in {"ul", "ol"}
    THEN AppendPart([self EXCEPT !.list_depth = @ - 1], <<"\n">>)
    ELSE IF tag = "li" THEN self
    ELSE IF tag = "code" THEN AppendPart(self, <<Backtick>>)
    ELSE IF tag = "pre" THEN AppendPart(self, <<"\n", Fence, "\n">>)
    ELSE IF tag \in {"td", "th"} THEN AppendPart(self, <<" ", "|">>)
    ELSE IF tag = "tr" THEN AppendPart(self, <<"\n">>)
    ELSE self

\* WeChatArticleParser.handle_endtag; the `if` of line 146 has a comment
\* for its body and changes nothing
handle_endtag(self, tag) ==
    IF tag \in ignore_tags THEN [self EXCEPT !.in_ignore = FALSE]
    ELSE IF self.in_ignore \/ ~self.in_content
    THEN [self EXCEPT !.in_title = IF tag = "h1" THEN FALSE ELSE @,
                      !.in_author = IF tag = "a" THEN FALSE ELSE @]
    ELSE EndMarkup(self, tag)

\* data.replace(NBSP, ' ').replace(ZWSP, ''): the no-break space U+00A0
\* becomes a space, the zero-width space U+200B is dropped
CleanData(data) ==
    SelectSeq([i \in 1..Len(data) |-> IF data[i] = "U+00A0" THEN " " ELSE data[i]],
              LAMBDA tok : tok # "U+200B")

\* WeChatArticleParser.handle_data
handle_data(self, data) ==
    IF self.in_ignore THEN self
    ELSE IF self.in_title THEN [self EXCEPT !.title = Strip(data)]
    ELSE IF self.in_author THEN [self EXCEPT !.author = Strip(data)]
    ELSE IF self.in_content THEN AppendPart(self, CleanData(data))
    ELSE self

\* the start tags and the end tags the parser is fed
StartEvents ==
    {[type |-> "start", tag |-> "div", attrs |-> ClassAttr("rich_media_content")],
     [type |-> "start", tag |-> "h1", attrs |-> ClassAttr("rich_media_title")],
     [type |-> "start", tag |-> "a", attrs |-> ClassAttr("rich_media_meta_link")],
     [type |-> "start", tag |-> "nav", attrs |-> NoAttrs],
     [type |-> "start", tag |-> "header", attrs |-> NoAttrs]}
EndTags == {"h1", "a", "nav", "header"}

\* the data event at place k of the event sequence
DataEvent(k) == [type |-> "data", data |-> <<" ", Texts[k], "U+200B">>]

WpInit ==
    /\ wp_parser = NewParser
    /\ wp_events = <<>>
    /\ wp_pc = "feed"

WpIdle ==
    /\ wp_parser = NewParser
    /\ wp_events = <<>>
    /\ wp_pc = "idle"

\* HTMLParser.feed reports a start tag
HandleStartTag ==
    /\ wp_pc = "feed"
    /\ Len(wp_events) < MaxEvents
    /\ \E e \in StartEvents :
        /\ wp_parser' = handle_starttag(wp_parser, e.tag, e.attrs)
        /\ wp_events' = Append(wp_events, e)
    /\ UNCHANGED wp_pc
    /\ UNCHANGED wpOthers

\* HTMLParser.feed reports an end tag
HandleEndTag ==
    /\ wp_pc = "feed"
    /\ Len(wp_events) < MaxEvents
    /\ \E tag \in EndTags :
        /\ wp_parser' = handle_endtag(wp_parser, tag)
        /\ wp_events' = Append(wp_events, [type |-> "end", tag |-> tag])
    /\ UNCHANGED wp_pc
    /\ UNCHANGED wpOthers

\* HTMLParser.feed reports text
HandleData ==
    /\ wp_pc = "feed"
    /\ Len(wp_events) < MaxEvents
    /\ LET e == DataEvent(Len(wp_events) + 1)
       IN  /\ wp_parser' = handle_data(wp_parser, e.data)
           /\ wp_events' = Append(wp_events, e)
    /\ UNCHANGED wp_pc
    /\ UNCHANGED wpOthers

WpNext == HandleStartTag \/ HandleEndTag \/ HandleData

\* the elements open before event k: a start tag opens an element, an end
\* tag closes the innermost open element of its name and all inside it
RECURSIVE OpenElements(_, _)
OpenElements(evs, k) ==
    IF k <= 1 THEN <<>>
    ELSE LET open == OpenElements(evs, k - 1)
             e == evs[k - 1]
             at == {i \in 1..Len(open) : open[i] = e.tag}
         IN  IF e.type = "start" THEN Append(open, e.tag)
             ELSE IF e.type = "end" /\ at # {}
             THEN SubSeq(open, 1, Max(at) - 1)
             ELSE open

\* event k lies inside a script, style, nav, header or footer element
InsideIgnored(k) ==
    \E tag \in Range(OpenElements(wp_events, k)) : tag \in ignore_tags

\* the text of data event k has reached the content, the title or the author
Extracted(k) ==
    \/ CleanData(wp_events[k].data) \in Range(wp_parser.content_parts)
    \/ wp_parser.title = Strip(wp_events[k].data)
    \/ wp_parser.author = Strip(wp_events[k].data)

\* C30: text inside a script, style, nav, header or footer element is never
\* appended to content_parts and never becomes the title or the author,
\* also when ignored elements are nested in one another.
C30_IgnoredTextIsNeverExtracted ==
    \A k \in 1..Len(wp_events) :
        wp_events[k].type = "data" /\ InsideIgnored(k) => ~Extracted(k)

-----------------------------------------------------------------------------
(* Specifications *)

InitRewrite ==
    RwInit /\ ClsIdle /\ ExIdle /\ MdIdle /\ EpIdle /\ DlIdle /\ AppIdle
        /\ IuIdle
        /\ CdIdle
        /\ CfIdle
        /\ ImIdle
        /\ RtIdle
        /\ WpIdle
SpecRewrite == InitRewrite /\ [][RwNext]_vars

InitClassify ==
    ClsInit /\ RwIdle /\ ExIdle /\ MdIdle /\ EpIdle /\ DlIdle /\ AppIdle
        /\ IuIdle
        /\ CdIdle
        /\ CfIdle
        /\ ImIdle
        /\ RtIdle
        /\ WpIdle
SpecClassify == InitClassify /\ [][ClsNext]_vars

InitExtract ==
    ExInit /\ RwIdle /\ ClsIdle /\ MdIdle /\ EpIdle /\ DlIdle /\ AppIdle
        /\ IuIdle
        /\ CdIdle
        /\ CfIdle
        /\ ImIdle
        /\ RtIdle
        /\ WpIdle
SpecExtract == InitExtract /\ [][ExNext]_vars

InitMarkdown ==
    MdInit /\ RwIdle /\ ClsIdle /\ ExIdle /\ EpIdle /\ DlIdle /\ AppIdle
        /\ IuIdle
        /\ CdIdle
        /\ CfIdle
        /\ ImIdle
        /\ RtIdle
        /\ WpIdle
SpecMarkdown == InitMarkdown /\ [][MdNext]_vars

InitEpub ==
    EpInit /\ RwIdle /\ ClsIdle /\ ExIdle /\ MdIdle /\ DlIdle /\ AppIdle
        /\ IuIdle
        /\ CdIdle
        /\ CfIdle
        /\ ImIdle
        /\ RtIdle
        /\ WpIdle
SpecEpub == InitEpub /\ [][EpNext]_vars

InitDownload ==
    DlInit /\ RwIdle /\ ClsIdle /\ ExIdle /\ MdIdle /\ EpIdle /\ AppIdle
        /\ IuIdle
        /\ CdIdle
        /\ CfIdle
        /\ ImIdle
        /\ RtIdle
        /\ WpIdle
SpecDownload == InitDownload /\ [][DlNext]_vars

InitApp ==
    AppInit /\ RwIdle /\ ClsIdle /\ ExIdle /\ MdIdle /\ EpIdle /\ DlIdle
        /\ IuIdle
        /\ CdIdle
        /\ CfIdle
        /\ ImIdle
        /\ RtIdle
        /\ WpIdle
SpecApp == InitApp /\ [][AppNext]_vars

\* the worker thread is scheduled and the event loop serves what is posted;
\* nothing is assumed of the user. BatchRewrite is enabled exactly when the
\* worker is at "rewrite" and every step of it leaves that position, so weak
\* fairness of it is written as the position not being kept for ever.
SpecAppFair ==
    /\ InitApp
    /\ [][AppNext]_vars
    /\ WF_vars(BatchThreadBegin)
    /\ WF_vars(BatchLoopHead)
    /\ WF_vars(BatchFetch)
    /\ WF_vars(BatchDownloadImage)
    /\ WF_vars(BatchDownloaded)
    /\ []<>(bw.pc # "rewrite")
    /\ WF_vars(BatchWrite)
    /\ WF_vars(BatchPostComplete)
    /\ WF_vars(BatchDownloadComplete)

InitImageUrls ==
    IuInit /\ RwIdle /\ ClsIdle /\ ExIdle /\ MdIdle /\ EpIdle /\ DlIdle /\ AppIdle
        /\ CdIdle
        /\ CfIdle
        /\ ImIdle
        /\ RtIdle
        /\ WpIdle
SpecImageUrls == InitImageUrls /\ [][IuNext]_vars

InitContentDoc ==
    CdInit /\ RwIdle /\ ClsIdle /\ ExIdle /\ MdIdle /\ EpIdle /\ DlIdle /\ AppIdle /\ IuIdle
        /\ CfIdle
        /\ ImIdle
        /\ RtIdle
        /\ WpIdle
SpecContentDoc == InitContentDoc /\ [][CdNext]_vars

InitContent ==
    CfInit /\ RwIdle /\ ClsIdle /\ ExIdle /\ MdIdle /\ EpIdle /\ DlIdle /\ AppIdle /\ IuIdle /\ CdIdle
        /\ ImIdle
        /\ RtIdle
        /\ WpIdle
SpecContent == InitContent /\ [][CfNext]_vars

InitImages ==
    ImInit /\ RwIdle /\ ClsIdle /\ ExIdle /\ MdIdle /\ EpIdle /\ DlIdle /\ AppIdle /\ IuIdle /\ CdIdle /\ CfIdle
        /\ RtIdle
        /\ WpIdle
SpecImages == InitImages /\ [][ImNext]_vars

InitHeader ==
    RtInit /\ RwIdle /\ ClsIdle /\ ExIdle /\ MdIdle /\ EpIdle /\ DlIdle /\ AppIdle /\ IuIdle /\ CdIdle /\ CfIdle /\ ImIdle
        /\ WpIdle
SpecHeader == InitHeader /\ [][RtNext]_vars

InitParser ==
    WpInit /\ RwIdle /\ ClsIdle /\ ExIdle /\ MdIdle /\ EpIdle /\ DlIdle /\ AppIdle /\ IuIdle /\ CdIdle /\ CfIdle /\ ImIdle /\ RtIdle
SpecParser == InitParser /\ [][WpNext]_vars

=============================================================================
